---- MODULE Spec2Model ----
(***************************************************************************)
(* Document ingestion and structural parsing pipeline of the legal         *)
(* intelligence platform: DocumentExtractor (document_extractor.py) and    *)
(* LegalTextParser (text_parser.py).                                       *)
(*                                                                         *)
(* Encodings used throughout:                                              *)
(*   - bytes          : sequence of integers 0..255                        *)
(*   - extracted text : sequence of Unicode code points (integers)         *)
(*   - file names     : sequence of one-character strings                  *)
(*   - a message      : non-empty sequence of string fragments whose       *)
(*                      concatenation is the message; Python's None is the *)
(*                      empty sequence                                     *)
(*   - a dict         : a function from key strings to values              *)
(*   - text to parse  : sequence of one-character strings                  *)
(***************************************************************************)
EXTENDS Integers, Sequences, FiniteSets, TLC

VARIABLES
    extraction_stats,   \* DocumentExtractor.extraction_stats
    phase,              \* "idle" | "pending" | "returned": position of the caller
    req,                \* the request of the current / last extract_text call
    ret,                \* the dict returned by the last extract_text call
    tried,              \* library methods / encodings attempted by the last call, in order
    before,             \* the counters when the last call started
    snapshot,           \* the dict returned by the last get_stats call
    since,              \* calls returned since the last get_stats: [calls, ok, bad]
    calls,              \* extract_text calls made so far
    held,               \* the mapping a caller got from get_stats and holds (and may mutate)
    parse_phase,        \* "idle" | "pending" | "returned": position of parse_document's caller
    parse_text,         \* the text argument of parse_document
    parse_metadata,     \* the doc_metadata argument of parse_document
    parsed,             \* the ParsedDocument returned by parse_document
    compare_phase,      \* "idle" | "pending" | "returned": position of compare_documents' caller
    compare_a,          \* the doc_a_text argument of compare_documents
    compare_b,          \* the doc_b_text argument of compare_documents
    compared,           \* the dict returned by compare_documents
    hash_seed,          \* the string-hash seed of the worker process (fixes the order of its sets)
    earlier,            \* the output of the first of two invocations with the same inputs
    runs,               \* invocations made with these inputs
    tasks               \* the extract_text calls in flight at once: request, position, result

extractor_vars ==
    <<extraction_stats, phase, req, ret, tried, before, snapshot, since, calls, held>>

parser_vars == <<parse_phase, parse_text, parse_metadata, parsed>>

comparison_vars == <<compare_phase, compare_a, compare_b, compared>>

worker_vars == <<hash_seed, earlier, runs, tasks>>

vars == <<extractor_vars, parser_vars, comparison_vars, worker_vars>>

----------------------------------------------------------------------------
(* Bounds *)

MaxCalls == 3       \* extract_text calls in one behaviour of Spec
MaxBytes == 3       \* length of the byte contents drawn for a single call
MaxChars == 2       \* length of the strings that are UTF-8 encoded
MaxPages == 2       \* pages of a PDF document
MaxParas == 2       \* paragraphs of a DOCX document
MaxPieces == 2      \* pieces of a text that is parsed
MaxDocLen == 4      \* length of the texts that are compared
MaxShift == 2       \* rotations of the iteration order of a set between processes
MaxRepeatLen == 2   \* length of the texts that are compared twice
MaxTasks == 2       \* extract_text calls in flight at once

----------------------------------------------------------------------------
(* Generic helpers *)

None == <<>>
EmptyDict == <<>>

SeqsUpTo(S, n) == UNION {[1..k -> S] : k \in 0..n}

Max(a, b) == IF a >= b THEN a ELSE b
Min(a, b) == IF a <= b THEN a ELSE b

\* dict.update(): keys of b overwrite keys of a
DictUpdate(a, b) ==
    [k \in (DOMAIN a) \cup (DOMAIN b) |-> IF k \in DOMAIN b THEN b[k] ELSE a[k]]

\* dict.get(key, default)
DictGet(d, k, default) == IF k \in DOMAIN d THEN d[k] ELSE default

\* str.join over a sequence of sequences
RECURSIVE Join(_, _)
Join(parts, sep) ==
    IF parts = <<>> THEN <<>>
    ELSE IF Len(parts) = 1 THEN parts[1]
    ELSE parts[1] \o sep \o Join(Tail(parts), sep)

\* flatten a sequence of sequences
RECURSIVE Flatten(_)
Flatten(ss) == IF ss = <<>> THEN <<>> ELSE Head(ss) \o Flatten(Tail(ss))

----------------------------------------------------------------------------
(* Text as code points: str.strip() *)

\* the code points str.isspace() accepts
WhitespaceCp ==
    (9..13) \cup (28..32) \cup {133, 160, 5760} \cup (8192..8202)
        \cup {8232, 8233, 8239, 8287, 12288}

RECURSIVE LStripCp(_)
LStripCp(s) ==
    IF s # <<>> /\ Head(s) \in WhitespaceCp THEN LStripCp(Tail(s)) ELSE s

RECURSIVE RStripCp(_)
RStripCp(s) ==
    IF s # <<>> /\ s[Len(s)] \in WhitespaceCp
    THEN RStripCp(SubSeq(s, 1, Len(s) - 1)) ELSE s

StripCp(s) == RStripCp(LStripCp(s))

\* truthiness of a str
Truthy(s) == s # <<>>

BlankLineSep == <<10, 10>>      \* '\n\n'

\* [t for t in texts if t]
RECURSIVE KeepTruthy(_)
KeepTruthy(texts) ==
    IF texts = <<>> THEN <<>>
    ELSE (IF Truthy(Head(texts)) THEN <<Head(texts)>> ELSE <<>>)
             \o KeepTruthy(Tail(texts))

\* [t for t in texts if t.strip()]
RECURSIVE KeepNonBlank(_)
KeepNonBlank(texts) ==
    IF texts = <<>> THEN <<>>
    ELSE (IF Truthy(StripCp(Head(texts))) THEN <<Head(texts)>> ELSE <<>>)
             \o KeepNonBlank(Tail(texts))

----------------------------------------------------------------------------
(* File names: Path(filename).suffix.lower() *)

UpperLetters ==
    <<"A","B","C","D","E","F","G","H","I","J","K","L","M",
      "N","O","P","Q","R","S","T","U","V","W","X","Y","Z">>
LowerLetters ==
    <<"a","b","c","d","e","f","g","h","i","j","k","l","m",
      "n","o","p","q","r","s","t","u","v","w","x","y","z">>

LowerChar(c) ==
    IF \E i \in 1..Len(UpperLetters) : UpperLetters[i] = c
    THEN LowerLetters[CHOOSE i \in 1..Len(UpperLetters) : UpperLetters[i] = c]
    ELSE c

\* mutant: the suffix is compared as written
LowerOmitted(s) == s

\* str.lower()
Lower(s) == [i \in 1..Len(s) |-> LowerChar(s[i])]

\* str.rfind(c) + 1 (0 when absent)
LastIndexOf(s, c) ==
    IF \E i \in 1..Len(s) : s[i] = c
    THEN CHOOSE i \in 1..Len(s) : s[i] = c /\ \A j \in (i+1)..Len(s) : s[j] # c
    ELSE 0

RECURSIVE DropTrailingSlashes(_)
DropTrailingSlashes(s) ==
    IF s # <<>> /\ s[Len(s)] = "/"
    THEN DropTrailingSlashes(SubSeq(s, 1, Len(s) - 1)) ELSE s

\* PurePath.name: the final path component
PathName(filename) ==
    LET p == DropTrailingSlashes(filename)
    IN  SubSeq(p, LastIndexOf(p, "/") + 1, Len(p))

\* PurePath.suffix: from the last dot of the name, unless that dot is the
\* first or the last character of the name
PathSuffix(filename) ==
    LET name == PathName(filename)
        k    == LastIndexOf(name, ".")
    IN  IF 1 < k /\ k < Len(name) THEN SubSeq(name, k, Len(name)) ELSE <<>>

SUPPORTED_EXTENSIONS ==
    { <<".","p","d","f">>, <<".","d","o","c","x">>,
      <<".","d","o","c">>, <<".","t","x","t">> }

----------------------------------------------------------------------------
(* bytes.decode(encoding) / str.encode('utf-8'), strict error handling.    *)
(* A decoder returns [ok, text]; ok = FALSE stands for UnicodeDecodeError. *)

DecodeError == [ok |-> FALSE, text |-> <<>>]

IsContinuation(b) == b \in 128..191

\* the values the second byte of a 3-byte sequence may take after lead b0
SecondOfThree(b0) ==
    IF b0 = 224 THEN 160..191 ELSE IF b0 = 237 THEN 128..159 ELSE 128..191

\* the values the second byte of a 4-byte sequence may take after lead b0
SecondOfFour(b0) ==
    IF b0 = 240 THEN 144..191 ELSE IF b0 = 244 THEN 128..143 ELSE 128..191

RECURSIVE Utf8DecodeFrom(_, _, _)
Utf8DecodeFrom(b, i, acc) ==
    IF i > Len(b) THEN [ok |-> TRUE, text |-> acc]
    ELSE
      LET b0   == b[i]
          more == Len(b) - i
      IN  IF b0 < 128
          THEN Utf8DecodeFrom(b, i + 1, Append(acc, b0))
          ELSE IF b0 \in 194..223 /\ more >= 1 /\ IsContinuation(b[i+1])
          THEN Utf8DecodeFrom(b, i + 2,
                   Append(acc, (b0 - 192) * 64 + (b[i+1] - 128)))
          ELSE IF b0 \in 224..239 /\ more >= 2 /\ b[i+1] \in SecondOfThree(b0)
                    /\ IsContinuation(b[i+2])
          THEN Utf8DecodeFrom(b, i + 3,
                   Append(acc, (b0 - 224) * 4096 + (b[i+1] - 128) * 64
                                 + (b[i+2] - 128)))
          ELSE IF b0 \in 240..244 /\ more >= 3 /\ b[i+1] \in SecondOfFour(b0)
                    /\ IsContinuation(b[i+2]) /\ IsContinuation(b[i+3])
          THEN Utf8DecodeFrom(b, i + 4,
                   Append(acc, (b0 - 240) * 262144 + (b[i+1] - 128) * 4096
                                 + (b[i+2] - 128) * 64 + (b[i+3] - 128)))
          ELSE DecodeError

Utf8Decode(b) == Utf8DecodeFrom(b, 1, <<>>)

Latin1DecodeAsciiOnly(b) ==
    IF \E i \in 1..Len(b) : b[i] >= 128 THEN DecodeError
    ELSE [ok |-> TRUE, text |-> b]

\* latin-1 (and its alias iso-8859-1): every byte is the code point of its value
Latin1Decode(b) == [ok |-> TRUE, text |-> b]

\* cp1252: 0x80..0x9F are remapped, five of them are undefined
Cp1252Undefined == {129, 141, 143, 144, 157}

Cp1252High ==
    [x \in (128..159) \ Cp1252Undefined |->
        CASE x = 128 -> 8364 [] x = 130 -> 8218 [] x = 131 -> 402
          [] x = 132 -> 8222 [] x = 133 -> 8230 [] x = 134 -> 8224
          [] x = 135 -> 8225 [] x = 136 -> 710  [] x = 137 -> 8240
          [] x = 138 -> 352  [] x = 139 -> 8249 [] x = 140 -> 338
          [] x = 142 -> 381  [] x = 145 -> 8216 [] x = 146 -> 8217
          [] x = 147 -> 8220 [] x = 148 -> 8221 [] x = 149 -> 8226
          [] x = 150 -> 8211 [] x = 151 -> 8212 [] x = 152 -> 732
          [] x = 153 -> 8482 [] x = 154 -> 353  [] x = 155 -> 8250
          [] x = 156 -> 339  [] x = 158 -> 382  [] x = 159 -> 376]

Cp1252Decode(b) ==
    IF \E i \in 1..Len(b) : b[i] \in Cp1252Undefined THEN DecodeError
    ELSE [ok |-> TRUE,
          text |-> [i \in 1..Len(b) |->
                      IF b[i] \in DOMAIN Cp1252High THEN Cp1252High[b[i]]
                      ELSE b[i]]]

Decode(b, encoding) ==
    CASE encoding = "utf-8"      -> Utf8Decode(b)
      [] encoding = "latin-1"    -> Latin1Decode(b)
      [] encoding = "cp1252"     -> Cp1252Decode(b)
      [] encoding = "iso-8859-1" -> Latin1Decode(b)

\* the UTF-8 encoding of one code point (surrogates cannot be encoded)
Utf8EncodeChar(c) ==
    IF c < 128 THEN <<c>>
    ELSE IF c < 2048 THEN <<192 + (c \div 64), 128 + (c % 64)>>
    ELSE IF c < 65536
    THEN <<224 + (c \div 4096), 128 + ((c \div 64) % 64), 128 + (c % 64)>>
    ELSE <<240 + (c \div 262144), 128 + ((c \div 4096) % 64),
           128 + ((c \div 64) % 64), 128 + (c % 64)>>

\* str.encode('utf-8')
RECURSIVE Utf8Encode(_)
Utf8Encode(s) ==
    IF s = <<>> THEN <<>> ELSE Utf8EncodeChar(Head(s)) \o Utf8Encode(Tail(s))

----------------------------------------------------------------------------
(* DocumentExtractor.  Every _extract_* operator returns                   *)
(*   [raised, msg, result, tried]                                          *)
(* raised = TRUE: the coroutine raised an exception whose str() is msg;    *)
(* otherwise result is the dict it returned.  tried lists, in order, the   *)
(* library methods or encodings the call attempted, each with whether the  *)
(* attempt ended in an exception.                                          *)

Attempt(step, threw) == [step |-> step, threw |-> threw]

ResultDict(text, metadata, method, success, error) ==
    [text |-> text, metadata |-> metadata, extraction_method |-> method,
     success |-> success, error |-> error]

\* mutant: a failure dict flagged as a success
FailureDictFlaggedSuccess(error) == ResultDict(<<>>, EmptyDict, "none", TRUE, error)

FailureDict(error) == ResultDict(<<>>, EmptyDict, "none", FALSE, error)

Returned(result, attempted) ==
    [raised |-> FALSE, msg |-> None, result |-> result, tried |-> attempted]

Raised(msg, attempted) ==
    [raised |-> TRUE, msg |-> msg, result |-> FailureDict(msg), tried |-> attempted]

\* mutant: latin-1 tried before utf-8
encodings_latin_first == <<"latin-1", "utf-8", "cp1252", "iso-8859-1">>

encodings_to_try == <<"utf-8", "latin-1", "cp1252", "iso-8859-1">>

\* the for loop of _extract_from_txt, from candidate i on
RECURSIVE TxtDecodeLoop(_, _, _)
TxtDecodeLoop(file_content, i, attempted) ==
    IF i > Len(encodings_to_try)
    THEN Returned(FailureDict(<<"Unable to decode file with any known encoding">>),
                  attempted)
    ELSE
      LET encoding == encodings_to_try[i]
          decoded  == Decode(file_content, encoding)
      IN  IF decoded.ok
          THEN Returned(
                 ResultDict(decoded.text,
                            [encoding |-> encoding,
                             size_bytes |-> Len(file_content),
                             extraction_method |-> "decode"],
                            "decode", TRUE, None),
                 Append(attempted, Attempt(encoding, FALSE)))
          ELSE TxtDecodeLoop(file_content, i + 1,
                             Append(attempted, Attempt(encoding, TRUE)))

\* mutant: the loop starts at the second candidate
_extract_from_txt_skipping_utf8(file_content) == TxtDecodeLoop(file_content, 2, <<>>)

_extract_from_txt(file_content) == TxtDecodeLoop(file_content, 1, <<>>)

\* PyPDF2.PdfReader on the content behaves as `doc` says
_extract_from_pdf_pypdf2(doc) ==
    IF doc.raises THEN Raised(doc.msg, <<Attempt("pypdf2", TRUE)>>)
    ELSE
      LET base      == [extraction_method |-> "pypdf2", pages |-> Len(doc.pages)]
          metadata  == IF DOMAIN doc.info # {}
                       THEN DictUpdate(base,
                              [title   |-> DictGet(doc.info, "/Title", ""),
                               author  |-> DictGet(doc.info, "/Author", ""),
                               subject |-> DictGet(doc.info, "/Subject", ""),
                               creator |-> DictGet(doc.info, "/Creator", "")])
                       ELSE base
          full_text == Join(KeepTruthy(doc.pages), BlankLineSep)
      IN  IF StripCp(full_text) = <<>>
          THEN Raised(<<"No text extracted using PyPDF2">>,
                      <<Attempt("pypdf2", TRUE)>>)
          ELSE Returned(ResultDict(full_text, metadata, "pypdf2", TRUE, None),
                        <<Attempt("pypdf2", FALSE)>>)

\* the try block of _extract_from_pdf: pdfplumber.open on the content
\* behaves as `doc` says
PdfPlumberAttempt(doc) ==
    IF doc.raises THEN Raised(doc.msg, <<Attempt("pdfplumber", TRUE)>>)
    ELSE
      LET base      == [pages |-> Len(doc.pages), extraction_method |-> "pdfplumber"]
          metadata  == IF Len(doc.pages) >= 1 /\ DOMAIN doc.info # {}
                       THEN DictUpdate(base,
                              [title   |-> DictGet(doc.info, "Title", ""),
                               author  |-> DictGet(doc.info, "Author", ""),
                               subject |-> DictGet(doc.info, "Subject", ""),
                               creator |-> DictGet(doc.info, "Creator", "")])
                       ELSE base
          full_text == Join(KeepTruthy(doc.pages), BlankLineSep)
      IN  IF StripCp(full_text) # <<>>
          THEN Returned(ResultDict(full_text, metadata, "pdfplumber", TRUE, None),
                        <<Attempt("pdfplumber", FALSE)>>)
          ELSE Raised(<<"No text extracted from PDF">>,
                      <<Attempt("pdfplumber", TRUE)>>)

\* mutant: the fallback runs whatever use_fallback says
_extract_from_pdf_ignoring_flag(env, use_fallback) ==
    LET primary == PdfPlumberAttempt(env.pdfplumber)
    IN  IF ~primary.raised THEN primary
        ELSE LET fallback == _extract_from_pdf_pypdf2(env.pypdf2)
                 attempted == primary.tried \o fallback.tried
             IN  IF fallback.raised
                 THEN Returned(
                        FailureDict(<<"Both extraction methods failed. Primary: ">>
                                      \o primary.msg \o <<", Fallback: ">>
                                      \o fallback.msg),
                        attempted)
                 ELSE Returned(fallback.result, attempted)

_extract_from_pdf(env, use_fallback) ==
    LET primary == PdfPlumberAttempt(env.pdfplumber)
    IN  IF ~primary.raised THEN primary
        ELSE IF use_fallback
        THEN LET fallback == _extract_from_pdf_pypdf2(env.pypdf2)
                 attempted == primary.tried \o fallback.tried
             IN  IF fallback.raised
                 THEN Returned(
                        FailureDict(<<"Both extraction methods failed. Primary: ">>
                                      \o primary.msg \o <<", Fallback: ">>
                                      \o fallback.msg),
                        attempted)
                 ELSE Returned(fallback.result, attempted)
        ELSE Returned(FailureDict(primary.msg), primary.tried)

\* str(datetime) of a document property
StrOfDatetime(d) ==
    CASE d = "datetime(2024, 1, 15, 9, 30)" -> "2024-01-15 09:30:00"
      [] d = "datetime(2023, 12, 31, 0, 0)"  -> "2023-12-31 00:00:00"

\* every cell of every table, row-major
TableCells(tables) ==
    Flatten([t \in 1..Len(tables) |-> Flatten(tables[t])])

\* docx.Document on the content behaves as `doc` says; a property that is
\* None is modelled as ""
_extract_from_docx(doc) ==
    IF doc.raises
    THEN Returned(FailureDict(doc.msg), <<Attempt("python-docx", TRUE)>>)
    ELSE
      LET text_parts == KeepNonBlank(doc.paragraphs)
                          \o KeepNonBlank(TableCells(doc.tables))
          full_text  == Join(text_parts, BlankLineSep)
          props      == doc.core_properties
          metadata   ==
              [paragraphs |-> Len(doc.paragraphs),
               tables     |-> Len(doc.tables),
               extraction_method |-> "python-docx",
               title    |-> props.title,
               author   |-> props.author,
               subject  |-> props.subject,
               created  |-> IF props.created # "" THEN StrOfDatetime(props.created)
                            ELSE "",
               modified |-> IF props.modified # "" THEN StrOfDatetime(props.modified)
                            ELSE ""]
      IN  Returned(ResultDict(full_text, metadata, "python-docx", TRUE, None),
                   <<Attempt("python-docx", FALSE)>>)

\* self.extraction_stats[key] += 1
IncrementStat(stats, key) == [stats EXCEPT ![key] = @ + 1]

\* mutant: total_extracted is not incremented on failure
CountFailureWithoutTotal(stats) == IncrementStat(stats, "failed")

\* the two increments of a failed call
CountFailure(stats) ==
    IncrementStat(IncrementStat(stats, "failed"), "total_extracted")

\* mutant: result['success'] is not consulted
CountResultAsSuccess(stats, result) ==
    IncrementStat(IncrementStat(stats, "successful"), "total_extracted")

\* the increments after a format-specific path returned `result`
CountResult(stats, result) ==
    IncrementStat(IF result.success THEN IncrementStat(stats, "successful")
                  ELSE IncrementStat(stats, "failed"),
                  "total_extracted")

\* the body of extract_text: returns the dict handed to the caller, the
\* counters after the call and the methods attempted
ExtractTextBody(stats, file_content, filename, use_fallback, env) ==
    LET file_ext == Lower(PathSuffix(filename))
    IN  IF file_ext \notin SUPPORTED_EXTENSIONS
        THEN [result |-> FailureDict(<<"Unsupported file type: ">> \o file_ext),
              stats  |-> CountFailure(stats),
              tried  |-> <<>>]
        ELSE
          LET inner ==
                IF file_ext = <<".","p","d","f">>
                THEN _extract_from_pdf(env, use_fallback)
                ELSE IF file_ext \in {<<".","d","o","c","x">>, <<".","d","o","c">>}
                THEN _extract_from_docx(env.docx)
                ELSE IF file_ext = <<".","t","x","t">>
                THEN _extract_from_txt(file_content)
                ELSE Returned(FailureDict(<<"Unhandled file type: ">> \o file_ext),
                              <<>>)
          IN  IF inner.raised
              THEN [result |-> FailureDict(inner.msg),
                    stats  |-> CountFailure(stats),
                    tried  |-> inner.tried]
              ELSE [result |-> inner.result,
                    stats  |-> CountResult(stats, inner.result),
                    tried  |-> inner.tried]

----------------------------------------------------------------------------
(* The inputs of extract_text.  What pdfplumber, PyPDF2 and python-docx do *)
(* with the content is not decided by this repository: a request carries,  *)
(* as env, one possible behaviour of each library on its content.          *)

Request(file_content, filename, use_fallback, env) ==
    [file_content |-> file_content, filename |-> filename,
     use_fallback |-> use_fallback, env |-> env]

PdfRaises(msg) == [raises |-> TRUE, msg |-> msg, pages |-> <<>>, info |-> EmptyDict]
PdfOpens(pages, info) == [raises |-> FALSE, msg |-> None, pages |-> pages, info |-> info]

NoProperties ==
    [title |-> "", author |-> "", subject |-> "", created |-> "", modified |-> ""]
SomeProperties ==
    [title |-> "Lease", author |-> "J. Doe", subject |-> "",
     created |-> "datetime(2023, 12, 31, 0, 0)",
     modified |-> "datetime(2024, 1, 15, 9, 30)"]

DocxRaises(msg) ==
    [raises |-> TRUE, msg |-> msg, paragraphs |-> <<>>, tables |-> <<>>,
     core_properties |-> NoProperties]
DocxOpens(paragraphs, tables, props) ==
    [raises |-> FALSE, msg |-> None, paragraphs |-> paragraphs, tables |-> tables,
     core_properties |-> props]

\* page / paragraph / cell texts: "", " ", "T"
PieceTexts == {<<>>, <<32>>, <<84>>}

PlumberInfos == {EmptyDict, [Title |-> "Lease", Author |-> "J. Doe"]}
PyPdfInfos   == {EmptyDict, ("/Title" :> "Lease") @@ ("/Creator" :> "Word")}

PlumberOutcomes(maxPages) ==
    {PdfRaises(<<"No /Root object! - Is this really a PDF?">>)}
      \cup {PdfOpens(p, i) : p \in SeqsUpTo(PieceTexts, maxPages), i \in PlumberInfos}

PyPdfOutcomes(maxPages) ==
    {PdfRaises(<<"EOF marker not found">>)}
      \cup {PdfOpens(p, i) : p \in SeqsUpTo(PieceTexts, maxPages), i \in PyPdfInfos}

\* one table of two rows: ("C", " ") and ("D")
SomeTable == << << <<67>>, <<32>> >>, << <<68>> >> >>

DocxOutcomes(maxParas) ==
    {DocxRaises(<<"File is not a zip file">>)}
      \cup {DocxOpens(p, t, c) : p \in SeqsUpTo(PieceTexts, maxParas),
                                 t \in {<<>>, <<SomeTable>>},
                                 c \in {NoProperties, SomeProperties}}

\* every library rejects the content
DefaultEnv ==
    [pdfplumber |-> PdfRaises(<<"No /Root object! - Is this really a PDF?">>),
     pypdf2     |-> PdfRaises(<<"EOF marker not found">>),
     docx       |-> DocxRaises(<<"File is not a zip file">>)]

TxtFilenames ==
    { <<"a",".","t","x","t">>, <<"A",".","T","X","T">>, <<"a",".","T","x","t">>,
      <<"a",".","p","d","f",".","t","x","t">>, <<"d",".","p","d","f","/","b",".","t","x","t">> }
PdfFilenames ==
    { <<"a",".","p","d","f">>, <<"A",".","P","D","F">>, <<"a",".","t","x","t",".","P","d","f">> }
DocxFilenames ==
    { <<"a",".","d","o","c","x">>, <<"a",".","D","O","C">>, <<"a",".","d","o","c">> }
OtherFilenames ==
    { <<"a",".","x","y","z">>, <<"a">>, <<>>, <<".","t","x","t">>,
      <<"a",".","t","x","t","x">>, <<"a",".","t","x">>, <<"a","t","x","t">>,
      <<"a",".","t","x","t","/","b">>, <<"a",".","p","d","f",".","b","a","k">> }
Filenames == TxtFilenames \cup PdfFilenames \cup DocxFilenames \cup OtherFilenames

\* 'A', 0xC3, 0xA9, 0xE2, 0x81
ByteAlphabet == {65, 195, 169, 226, 129}
\* 'A', U+00E9, U+20AC, U+1F600
CharAlphabet == {65, 233, 8364, 128512}

\* any file name with any content, the libraries rejecting it
ContentRequests ==
    {Request(c, f, fb, DefaultEnv) :
        c \in SeqsUpTo(ByteAlphabet, MaxBytes), f \in Filenames, fb \in BOOLEAN}

\* any file name with the UTF-8 encoding of a string
EncodedRequests ==
    {Request(Utf8Encode(s), f, TRUE, DefaultEnv) :
        s \in SeqsUpTo(CharAlphabet, MaxChars), f \in Filenames}

\* a .pdf name with every behaviour of the two PDF libraries
PdfRequests ==
    {Request(<<65>>, f, fb, [DefaultEnv EXCEPT !.pdfplumber = p, !.pypdf2 = q]) :
        f \in PdfFilenames, fb \in BOOLEAN,
        p \in PlumberOutcomes(MaxPages), q \in PyPdfOutcomes(MaxPages)}

\* a .docx / .doc name with every behaviour of python-docx
DocxRequests ==
    {Request(<<65>>, f, TRUE, [DefaultEnv EXCEPT !.docx = d]) :
        f \in DocxFilenames, d \in DocxOutcomes(MaxParas)}

Requests == ContentRequests \cup EncodedRequests \cup PdfRequests \cup DocxRequests

\* the requests of a sequence of calls: one or more per return path
SeqRequests ==
    { Request(<<65>>, <<"a",".","t","x","t">>, TRUE, DefaultEnv),
      Request(<<>>, <<"a",".","t","x","t">>, TRUE, DefaultEnv),
      Request(<<233>>, <<"A",".","T","X","T">>, FALSE, DefaultEnv),
      Request(<<65>>, <<"a",".","x","y","z">>, TRUE, DefaultEnv),
      Request(<<>>, <<".","t","x","t">>, FALSE, DefaultEnv),
      Request(<<65>>, <<"a",".","p","d","f">>, TRUE, DefaultEnv),
      Request(<<65>>, <<"a",".","p","d","f">>, FALSE, DefaultEnv),
      Request(<<65>>, <<"A",".","P","D","F">>, TRUE,
              [DefaultEnv EXCEPT !.pdfplumber = PdfOpens(<<<<84>>>>, EmptyDict)]),
      Request(<<65>>, <<"a",".","p","d","f">>, TRUE,
              [DefaultEnv EXCEPT !.pdfplumber = PdfOpens(<<<<32>>>>, EmptyDict),
                                 !.pypdf2 = PdfOpens(<<<<84>>, <<84>>>>, EmptyDict)]),
      Request(<<65>>, <<"a",".","p","d","f">>, TRUE,
              [DefaultEnv EXCEPT !.pypdf2 = PdfOpens(<<<<>>>>, EmptyDict)]),
      Request(<<65>>, <<"a",".","d","o","c","x">>, TRUE, DefaultEnv),
      Request(<<65>>, <<"a",".","D","O","C">>, TRUE,
              [DefaultEnv EXCEPT !.docx = DocxOpens(<<<<84>>>>, <<>>, SomeProperties)]),
      Request(<<65>>, <<"a",".","d","o","c">>, TRUE,
              [DefaultEnv EXCEPT !.docx = DocxOpens(<<>>, <<>>, NoProperties)]) }

----------------------------------------------------------------------------
(* State machine *)

NoStats == [total_extracted |-> 0, successful |-> 0, failed |-> 0]
NoCalls == [calls |-> 0, ok |-> 0, bad |-> 0]
NoRequest == Request(<<>>, <<>>, FALSE, DefaultEnv)
NoReturn == ResultDict(<<>>, EmptyDict, "", FALSE, None)

\* a mapping held by a caller: its items, whether it is the very dict of
\* the extractor, and whether the caller has written to it
Held(dict, shared, mutated) == [dict |-> dict, shared |-> shared, mutated |-> mutated]

NoHeld == Held(EmptyDict, FALSE, FALSE)

\* DocumentExtractor.__init__; no call made yet
InitExtractor ==
    /\ extraction_stats = NoStats
    /\ ret = NoReturn
    /\ tried = <<>>
    /\ before = NoStats
    /\ snapshot = EmptyDict
    /\ since = NoCalls
    /\ calls = 0
    /\ held = NoHeld

\* the call without doc_metadata (the default None), and one that passes a dict
NoMetadata == [given |-> FALSE, dict |-> EmptyDict]
Metadata(d) == [given |-> TRUE, dict |-> d]

\* no parse_document call is made
ParserIdle ==
    /\ parse_phase = "idle"
    /\ parse_text = <<>>
    /\ parse_metadata = NoMetadata
    /\ parsed = None

\* no compare_documents call is made
ComparisonIdle ==
    /\ compare_phase = "idle"
    /\ compare_a = <<>>
    /\ compare_b = <<>>
    /\ compared = None

\* one invocation per input, the hash seed of its process left open
NoSeed == [shift |-> 0, reversed |-> FALSE]

WorkerIdle ==
    /\ hash_seed = NoSeed
    /\ earlier = None
    /\ runs = 0
    /\ tasks = <<>>

\* one complete extract_text call with request r
Call(r) ==
    LET out == ExtractTextBody(extraction_stats, r.file_content, r.filename,
                               r.use_fallback, r.env)
    IN  /\ extraction_stats' = out.stats
        /\ ret' = out.result
        /\ tried' = out.tried
        /\ before' = extraction_stats
        /\ req' = r
        /\ phase' = "returned"
        /\ calls' = calls + 1
        /\ since' = [calls |-> since.calls + 1,
                     ok    |-> since.ok + (IF out.result.success THEN 1 ELSE 0),
                     bad   |-> since.bad + (IF out.result.success THEN 0 ELSE 1)]
        /\ held' = (IF held.shared THEN [held EXCEPT !.dict = out.stats] ELSE held)
        /\ UNCHANGED snapshot
        /\ UNCHANGED <<parser_vars, comparison_vars>>

\* a caller awaits extract_text(...)
extract_text ==
    /\ phase \in {"idle", "returned"}
    /\ calls < MaxCalls
    /\ \E r \in SeqRequests : Call(r)
    /\ UNCHANGED worker_vars

StatsItself(stats) == Held(stats, TRUE, FALSE)

\* self.extraction_stats.copy(): a new dict with the same items
StatsCopy(stats) == Held(stats, FALSE, FALSE)

\* a caller takes get_stats(): a copy of the counters
get_stats ==
    /\ phase \in {"idle", "returned"}
    /\ snapshot' = extraction_stats
    /\ held' = StatsCopy(extraction_stats)
    /\ since' = NoCalls
    /\ UNCHANGED <<extraction_stats, phase, req, ret, tried, before, calls>>
    /\ UNCHANGED <<parser_vars, comparison_vars, worker_vars>>

\* the pending request is served
extract_pending ==
    /\ phase = "pending"
    /\ Call(req)
    /\ UNCHANGED worker_vars

Init ==
    /\ InitExtractor
    /\ phase = "idle"
    /\ req = NoRequest
    /\ ParserIdle
    /\ ComparisonIdle
    /\ WorkerIdle

Next == extract_text \/ get_stats

Spec == Init /\ [][Next]_vars

\* one extract_text call on a fresh extractor, its request drawn from Requests
InitOne ==
    /\ InitExtractor
    /\ phase = "pending"
    /\ req \in Requests
    /\ ParserIdle
    /\ ComparisonIdle
    /\ WorkerIdle

NextOne == extract_pending

SpecOne == InitOne /\ [][NextOne]_vars

----------------------------------------------------------------------------
(* A caller that holds and writes to the mapping get_stats returned *)

\* one request that succeeds and one that fails
SampleRequests ==
    { Request(<<65>>, <<"a",".","t","x","t">>, TRUE, DefaultEnv),
      Request(<<65>>, <<"a",".","x","y","z">>, TRUE, DefaultEnv) }

\* a caller awaits extract_text(...) with one of the sample requests
extract_sample ==
    /\ phase \in {"idle", "returned"}
    /\ calls < MaxCalls
    /\ \E r \in SampleRequests : Call(r)
    /\ UNCHANGED worker_vars

\* the caller assigns to an item of the mapping it holds: held[k] += 1
mutate_snapshot ==
    /\ phase \in {"idle", "returned"}
    /\ DOMAIN held.dict # {}
    /\ ~held.mutated
    /\ \E k \in DOMAIN held.dict :
          LET written == [held.dict EXCEPT ![k] = @ + 1]
          IN  /\ held' = [held EXCEPT !.dict = written, !.mutated = TRUE]
              /\ extraction_stats' = (IF held.shared THEN written ELSE extraction_stats)
    /\ UNCHANGED <<phase, req, ret, tried, before, snapshot, since, calls>>
    /\ UNCHANGED <<parser_vars, comparison_vars, worker_vars>>

NextSnapshot == extract_sample \/ get_stats \/ mutate_snapshot

SpecSnapshot == Init /\ [][NextSnapshot]_vars

----------------------------------------------------------------------------
(* Several extract_text calls in flight on the shared extractor.  Each call *)
(* is a task: its request, its position in extract_text, the counter value *)
(* it has read and not yet written back, the counters it saw when it was   *)
(* started, and its result.                                                *)

Task(r) == [request |-> r, pc |-> "created", tmp |-> 0, seen |-> NoStats, result |-> NoReturn]

\* one request per way out of extract_text: the helper returns success,
\* the extension is refused before the try, the helper returns a failure
TaskRequests ==
    SampleRequests \cup {Request(<<65>>, <<"a",".","p","d","f">>, TRUE, DefaultEnv)}

\* file_ext not in self.SUPPORTED_EXTENSIONS
Refused(r) == Lower(PathSuffix(r.filename)) \notin SUPPORTED_EXTENSIONS

Started  == {t \in DOMAIN tasks : tasks[t].pc # "created"}
Finished == {t \in DOMAIN tasks : tasks[t].pc = "done"}

\* a caller makes one more call before any concurrent batch is launched
extract_alone ==
    /\ tasks = <<>>
    /\ phase \in {"idle", "returned"}
    /\ calls < MaxCalls
    /\ \E r \in SampleRequests : Call(r)
    /\ UNCHANGED worker_vars

\* the callers launch their calls together, their requests drawn from
\* requests; `before` keeps the counters at that moment
Launch(requests) ==
    /\ tasks = <<>>
    /\ phase \in {"idle", "returned"}
    /\ tasks' \in [1..MaxTasks -> {Task(r) : r \in requests}]
    /\ before' = extraction_stats
    /\ UNCHANGED <<extraction_stats, phase, req, ret, tried, snapshot, since, calls, held>>
    /\ UNCHANGED <<parser_vars, comparison_vars, hash_seed, earlier, runs>>

\* the coroutines are scheduled on the event loop (asyncio.gather)
launch == Launch(TaskRequests)

\* get_stats called from another task while the batch is in flight
get_stats_meanwhile ==
    /\ tasks # <<>>
    /\ get_stats

StatsBeforeAwait(current, seen) == seen

\* the counters are read where they are updated, after the await has returned
StatsAtResume(current, seen) == current

\* The event loop runs a task from its start to its first await: a refused
\* extension is counted and returned without reaching one; any other call
\* stops at `result = await self._extract_from_...`.
task_begin ==
    \E t \in DOMAIN tasks :
        /\ tasks[t].pc = "created"
        /\ LET r   == tasks[t].request
               out == ExtractTextBody(extraction_stats, r.file_content, r.filename,
                                      r.use_fallback, r.env)
           IN  IF Refused(r)
               THEN /\ extraction_stats' = out.stats
                    /\ tasks' = [tasks EXCEPT ![t].pc = "done", ![t].result = out.result,
                                              ![t].seen = extraction_stats]
               ELSE /\ tasks' = [tasks EXCEPT ![t].pc = "awaiting",
                                              ![t].seen = extraction_stats]
                    /\ UNCHANGED extraction_stats
        /\ UNCHANGED <<phase, req, ret, tried, before, snapshot, since, calls, held>>
        /\ UNCHANGED <<parser_vars, comparison_vars, hash_seed, earlier, runs>>

\* The event loop resumes a task at its await: the helper's result arrives,
\* the two counters are updated and the call returns, with no await between.
task_resume ==
    \E t \in DOMAIN tasks :
        /\ tasks[t].pc = "awaiting"
        /\ LET r   == tasks[t].request
               out == ExtractTextBody(StatsAtResume(extraction_stats, tasks[t].seen),
                                      r.file_content, r.filename, r.use_fallback, r.env)
           IN  /\ extraction_stats' = out.stats
               /\ tasks' = [tasks EXCEPT ![t].pc = "done", ![t].result = out.result]
        /\ UNCHANGED <<phase, req, ret, tried, before, snapshot, since, calls, held>>
        /\ UNCHANGED <<parser_vars, comparison_vars, hash_seed, earlier, runs>>

NextLoop == extract_alone \/ launch \/ task_begin \/ task_resume \/ get_stats_meanwhile

SpecLoop == Init /\ [][NextLoop]_vars

----------------------------------------------------------------------------
(* The same calls on preemptively scheduled threads.  The interpreter may  *)
(* switch threads between any two bytecodes, so the item read and the item *)
(* write of `self.extraction_stats[k] += 1` are separate steps.            *)

\* the counter a thread is about to read or write: the outcome counter
\* first ('successful' or 'failed'), then 'total_extracted'
CounterAt(task) ==
    IF task.pc \in {"read_outcome", "write_outcome"}
    THEN (IF task.result.success THEN "successful" ELSE "failed")
    ELSE "total_extracted"

IncrementedTwice(v) == v + 2

\* the value stored by `+= 1` from the value that was read
Incremented(v) == v + 1

\* one thread is started per call; a call that succeeds and a call that fails
\* differ in the counter they update
launch_threads == Launch(SampleRequests)

\* A thread runs extract_text up to its first counter statement: the suffix
\* test, the helper and the except clause work on the call's own arguments.
thread_call ==
    \E t \in DOMAIN tasks :
        /\ tasks[t].pc = "created"
        /\ LET r   == tasks[t].request
               out == ExtractTextBody(extraction_stats, r.file_content, r.filename,
                                      r.use_fallback, r.env)
           IN  tasks' = [tasks EXCEPT ![t].pc = "read_outcome", ![t].result = out.result]
        /\ UNCHANGED extractor_vars
        /\ UNCHANGED <<parser_vars, comparison_vars, hash_seed, earlier, runs>>

\* the thread reads self.extraction_stats[k]
thread_read ==
    \E t \in DOMAIN tasks :
        /\ tasks[t].pc \in {"read_outcome", "read_total"}
        /\ tasks' = [tasks EXCEPT
                        ![t].tmp = extraction_stats[CounterAt(tasks[t])],
                        ![t].pc = IF tasks[t].pc = "read_outcome"
                                  THEN "write_outcome" ELSE "write_total"]
        /\ UNCHANGED extractor_vars
        /\ UNCHANGED <<parser_vars, comparison_vars, hash_seed, earlier, runs>>

\* the thread stores the value it read plus one into self.extraction_stats[k];
\* after the store into 'total_extracted' the call returns its result
thread_write ==
    \E t \in DOMAIN tasks :
        /\ tasks[t].pc \in {"write_outcome", "write_total"}
        /\ extraction_stats' =
              [extraction_stats EXCEPT ![CounterAt(tasks[t])] = Incremented(tasks[t].tmp)]
        /\ tasks' = [tasks EXCEPT
                        ![t].tmp = 0,
                        ![t].pc = IF tasks[t].pc = "write_outcome"
                                  THEN "read_total" ELSE "done"]
        /\ UNCHANGED <<phase, req, ret, tried, before, snapshot, since, calls, held>>
        /\ UNCHANGED <<parser_vars, comparison_vars, hash_seed, earlier, runs>>

NextThreads == extract_alone \/ launch_threads \/ thread_call \/ thread_read \/ thread_write

SpecThreads == Init /\ [][NextThreads]_vars

----------------------------------------------------------------------------
(* Text of the parser: a str is a sequence of one-character strings.       *)

UpperChars == {UpperLetters[i] : i \in 1..Len(UpperLetters)}
LowerChars == {LowerLetters[i] : i \in 1..Len(LowerLetters)}
DigitChars == {"0", "1", "2", "3", "4", "5", "6", "7", "8", "9"}
SpaceChars == {" ", "\t", "\n", "\r"}
WordChars  == UpperChars \cup LowerChars \cup DigitChars \cup {"_"}

UpperChar(c) ==
    IF \E i \in 1..Len(LowerLetters) : LowerLetters[i] = c
    THEN UpperLetters[CHOOSE i \in 1..Len(LowerLetters) : LowerLetters[i] = c]
    ELSE c

\* str.strip()
RECURSIVE LStrip(_)
LStrip(s) == IF s # <<>> /\ Head(s) \in SpaceChars THEN LStrip(Tail(s)) ELSE s

RECURSIVE RStrip(_)
RStrip(s) ==
    IF s # <<>> /\ s[Len(s)] \in SpaceChars
    THEN RStrip(SubSeq(s, 1, Len(s) - 1)) ELSE s

Strip(s) == RStrip(LStrip(s))

\* str.isupper(): some cased character, and no lower-case one
IsUpper(s) ==
    /\ \E i \in 1..Len(s) : s[i] \in UpperChars
    /\ \A i \in 1..Len(s) : s[i] \notin LowerChars

\* str.split(sep) for a one-character separator
RECURSIVE SplitOn(_, _)
SplitOn(s, sep) ==
    IF \E i \in 1..Len(s) : s[i] = sep
    THEN LET k == CHOOSE i \in 1..Len(s) :
                      s[i] = sep /\ \A j \in 1..(i - 1) : s[j] # sep
         IN  <<SubSeq(s, 1, k - 1)>> \o SplitOn(SubSeq(s, k + 1, Len(s)), sep)
    ELSE <<s>>

\* len(str.split()): the number of maximal runs of non-whitespace
WordCount(s) ==
    Cardinality({i \in 1..Len(s) :
                    s[i] \notin SpaceChars /\ (i = 1 \/ s[i-1] \in SpaceChars)})

----------------------------------------------------------------------------
(* Regular expressions (module re).  A pattern is a tree of nodes; Run     *)
(* returns the states a backtracking matcher reaches from state st, in the *)
(* order it tries them, so the head is the match re reports.  A state is   *)
(* [pos, caps]: the next position and the spans of the capture groups.     *)

Unbounded == -1

ReSet(chars)      == [op |-> "set", chars |-> chars, neg |-> FALSE]
ReNotSet(chars)   == [op |-> "set", chars |-> chars, neg |-> TRUE]
ReLit(c)          == ReSet({c})
ReAny             == ReNotSet({"\n"})                 \* .
ReSpace           == ReSet(SpaceChars)                \* \s
ReDigit           == ReSet(DigitChars)                \* \d
ReCat(args)       == [op |-> "cat", args |-> args]
ReAlt(args)       == [op |-> "alt", args |-> args]
ReRep(arg, lo, hi) == [op |-> "rep", arg |-> arg, lo |-> lo, hi |-> hi]
ReStar(arg)       == ReRep(arg, 0, Unbounded)         \* x*
RePlus(arg)       == ReRep(arg, 1, Unbounded)         \* x+
ReOpt(arg)        == ReRep(arg, 0, 1)                 \* x?
ReGroup(k, arg)   == [op |-> "group", k |-> k, arg |-> arg]
ReBol             == [op |-> "bol"]                   \* ^ under re.MULTILINE
ReEol             == [op |-> "eol"]                   \* $ under re.MULTILINE
ReBegin           == [op |-> "begin"]                 \* ^
ReEnd             == [op |-> "end"]                   \* $
ReWordB           == [op |-> "wordb"]                 \* \b
ReStr(s)          == ReCat([i \in 1..Len(s) |-> ReLit(s[i])])

NoCaps == [k \in 1..3 |-> <<0, 0>>]

CharMatches(c, node, ignorecase) ==
    LET in == \/ c \in node.chars
              \/ ignorecase /\ (LowerChar(c) \in node.chars \/ UpperChar(c) \in node.chars)
    IN  IF node.neg THEN ~in ELSE in

IsWordAt(s, i) == i >= 1 /\ i <= Len(s) /\ s[i] \in WordChars

RECURSIVE Run(_, _, _, _)
RECURSIVE RunCat(_, _, _, _, _)
RECURSIVE RunAlt(_, _, _, _, _)
RECURSIVE RunRep(_, _, _, _, _, _)
RECURSIVE RunEach(_, _, _, _, _, _, _)

Run(node, s, ignorecase, st) ==
    CASE node.op = "set" ->
           IF st.pos <= Len(s) /\ CharMatches(s[st.pos], node, ignorecase)
           THEN <<[st EXCEPT !.pos = @ + 1]>> ELSE <<>>
      [] node.op = "cat" -> RunCat(node.args, 1, s, ignorecase, st)
      [] node.op = "alt" -> RunAlt(node.args, 1, s, ignorecase, st)
      [] node.op = "rep" -> RunRep(node.arg, node.lo, node.hi, s, ignorecase, st)
      [] node.op = "group" ->
           LET inner == Run(node.arg, s, ignorecase, st)
           IN  [i \in 1..Len(inner) |->
                  [inner[i] EXCEPT !.caps[node.k] = <<st.pos, inner[i].pos>>]]
      [] node.op = "bol" ->
           IF st.pos = 1 \/ s[st.pos - 1] = "\n" THEN <<st>> ELSE <<>>
      [] node.op = "eol" ->
           IF st.pos = Len(s) + 1 \/ s[st.pos] = "\n" THEN <<st>> ELSE <<>>
      [] node.op = "begin" -> IF st.pos = 1 THEN <<st>> ELSE <<>>
      [] node.op = "end" ->
           IF st.pos = Len(s) + 1 \/ (st.pos = Len(s) /\ s[st.pos] = "\n")
           THEN <<st>> ELSE <<>>
      [] node.op = "wordb" ->
           IF IsWordAt(s, st.pos - 1) # IsWordAt(s, st.pos) THEN <<st>> ELSE <<>>

\* args[k..] in sequence
RunCat(args, k, s, ignorecase, st) ==
    IF k > Len(args) THEN <<st>>
    ELSE RunEach(Run(args[k], s, ignorecase, st), 1, args, k + 1, s, ignorecase, "cat")

\* args[k..] as alternatives, the leftmost first
RunAlt(args, k, s, ignorecase, st) ==
    IF k > Len(args) THEN <<>>
    ELSE Run(args[k], s, ignorecase, st) \o RunAlt(args, k + 1, s, ignorecase, st)

\* a greedy repetition: one more iteration is tried before stopping
RunRep(arg, lo, hi, s, ignorecase, st) ==
    LET once == IF hi = 0 THEN <<>> ELSE Run(arg, s, ignorecase, st)
        next == [arg |-> arg, lo |-> IF lo > 0 THEN lo - 1 ELSE 0,
                 hi |-> IF hi = Unbounded THEN Unbounded ELSE hi - 1, from |-> st.pos]
    IN  RunEach(once, 1, next, 0, s, ignorecase, "rep")
          \o (IF lo = 0 THEN <<st>> ELSE <<>>)

\* continue from each state of sts[i..], in order
RunEach(sts, i, rest, k, s, ignorecase, how) ==
    IF i > Len(sts) THEN <<>>
    ELSE (IF how = "cat" THEN RunCat(rest, k, s, ignorecase, sts[i])
          ELSE IF sts[i].pos > rest.from
          THEN RunRep(rest.arg, rest.lo, rest.hi, s, ignorecase, sts[i])
          ELSE <<>>)
         \o RunEach(sts, i + 1, rest, k, s, ignorecase, how)

\* a match object: the span [start, end) and the groups
MatchAt(node, s, ignorecase, start) ==
    LET sts == Run(node, s, ignorecase, [pos |-> start, caps |-> NoCaps])
    IN  IF sts = <<>> THEN [found |-> FALSE, start |-> 0, end |-> 0, caps |-> NoCaps]
        ELSE [found |-> TRUE, start |-> start, end |-> sts[1].pos, caps |-> sts[1].caps]

\* pattern.match(s)
ReMatch(node, s, ignorecase) == MatchAt(node, s, ignorecase, 1)

\* the match that starts at each position of s, if there is one
MatchTable(node, s, ignorecase) ==
    [i \in 1..(Len(s) + 1) |-> MatchAt(node, s, ignorecase, i)]

\* the leftmost match at or after from, then the ones after it
RECURSIVE FindFrom(_, _)
FindFrom(table, from) ==
    LET hits == {i \in from..Len(table) : table[i].found}
    IN  IF hits = {} THEN <<>>
        ELSE LET m == table[CHOOSE i \in hits : \A j \in hits : i <= j]
             IN  <<m>> \o FindFrom(table, IF m.end > m.start THEN m.end ELSE m.end + 1)

\* list(pattern.finditer(s)): the non-overlapping matches, left to right
ReFindIter(node, s, ignorecase) == FindFrom(MatchTable(node, s, ignorecase), 1)

\* match.group(0) / match.group(k)
Group0(s, m) == SubSeq(s, m.start, m.end - 1)
GroupK(s, m, k) == SubSeq(s, m.caps[k][1], m.caps[k][2] - 1)

----------------------------------------------------------------------------
(* The patterns of LegalTextParser *)

RomanChars == {"I", "V", "X"}

SECTION_PATTERNS ==
    << \* ^([IVX]+)\.\s+(.+)$
       ReCat(<<ReBol, ReGroup(1, RePlus(ReSet(RomanChars))), ReLit("."),
               RePlus(ReSpace), ReGroup(2, RePlus(ReAny)), ReEol>>),
       \* ^(\d+)\.\s+(.+)$
       ReCat(<<ReBol, ReGroup(1, RePlus(ReDigit)), ReLit("."),
               RePlus(ReSpace), ReGroup(2, RePlus(ReAny)), ReEol>>),
       \* ^([A-Z])\.\s+(.+)$
       ReCat(<<ReBol, ReGroup(1, ReSet(UpperChars)), ReLit("."),
               RePlus(ReSpace), ReGroup(2, RePlus(ReAny)), ReEol>>),
       \* ^(ARTICLE|SECTION|PART)\s+([IVX\d]+)[:\.]?\s*(.*)$
       ReCat(<<ReBol,
               ReGroup(1, ReAlt(<<ReStr(<<"A", "R", "T", "I", "C", "L", "E">>), ReStr(<<"S", "E", "C", "T", "I", "O", "N">>), ReStr(<<"P", "A", "R", "T">>)>>)),
               RePlus(ReSpace), ReGroup(2, RePlus(ReSet(RomanChars \cup DigitChars))),
               ReOpt(ReSet({":", "."})), ReStar(ReSpace),
               ReGroup(3, ReStar(ReAny)), ReEol>>),
       \* ^([A-Z][A-Z\s]{3,})[:\.]?\s*$
       ReCat(<<ReBol,
               ReGroup(1, ReCat(<<ReSet(UpperChars),
                                  ReRep(ReSet(UpperChars \cup SpaceChars), 3, Unbounded)>>)),
               ReOpt(ReSet({":", "."})), ReStar(ReSpace), ReEol>>) >>

\* the number of groups of each section pattern: len(match.groups())
SECTION_GROUPS == <<2, 2, 2, 3, 1>>

CITATION_PATTERNS ==
    << \* \b\d+\s+[A-Z][a-z]*\.?\s*(?:\d+d|3d)?\s+\d+\b
       [pattern |->
          ReCat(<<ReWordB, RePlus(ReDigit), RePlus(ReSpace), ReSet(UpperChars),
                  ReStar(ReSet(LowerChars)), ReOpt(ReLit(".")), ReStar(ReSpace),
                  ReOpt(ReAlt(<<ReCat(<<RePlus(ReDigit), ReLit("d")>>),
                                ReStr(<<"3", "d">>)>>)),
                  RePlus(ReSpace), RePlus(ReDigit), ReWordB>>),
        type |-> "case"],
       \* \b\d+\s+[A-Z][a-z.]+\s+(?:Code|Stat\.|C\.F\.R\.)\s*§\s*\d+
       [pattern |->
          ReCat(<<ReWordB, RePlus(ReDigit), RePlus(ReSpace), ReSet(UpperChars),
                  RePlus(ReSet(LowerChars \cup {"."})), RePlus(ReSpace),
                  ReAlt(<<ReStr(<<"C", "o", "d", "e">>), ReStr(<<"S", "t", "a", "t", ".">>), ReStr(<<"C", ".", "F", ".", "R", ".">>)>>),
                  ReStar(ReSpace), ReLit("§"), ReStar(ReSpace), RePlus(ReDigit)>>),
        type |-> "statute"],
       \* \b\d+\s+U\.?S\.?C\.?\s*§?\s*\d+
       [pattern |->
          ReCat(<<ReWordB, RePlus(ReDigit), RePlus(ReSpace),
                  ReLit("U"), ReOpt(ReLit(".")), ReLit("S"), ReOpt(ReLit(".")),
                  ReLit("C"), ReOpt(ReLit(".")), ReStar(ReSpace), ReOpt(ReLit("§")),
                  ReStar(ReSpace), RePlus(ReDigit)>>),
        type |-> "statute"],
       \* §§?\s*\d+(?:-\d+)?
       [pattern |->
          ReCat(<<ReLit("§"), ReOpt(ReLit("§")), ReStar(ReSpace), RePlus(ReDigit),
                  ReOpt(ReCat(<<ReLit("-"), RePlus(ReDigit)>>))>>),
        type |-> "section"] >>

MonthNames ==
    << <<"J", "a", "n", "u", "a", "r", "y">>,
       <<"F", "e", "b", "r", "u", "a", "r", "y">>,
       <<"M", "a", "r", "c", "h">>,
       <<"A", "p", "r", "i", "l">>,
       <<"M", "a", "y">>,
       <<"J", "u", "n", "e">>,
       <<"J", "u", "l", "y">>,
       <<"A", "u", "g", "u", "s", "t">>,
       <<"S", "e", "p", "t", "e", "m", "b", "e", "r">>,
       <<"O", "c", "t", "o", "b", "e", "r">>,
       <<"N", "o", "v", "e", "m", "b", "e", "r">>,
       <<"D", "e", "c", "e", "m", "b", "e", "r">> >>

DATE_PATTERNS ==
    << \* \b(?:January|...|December)\s+\d{1,2},?\s+\d{4}\b
       ReCat(<<ReWordB, ReAlt([i \in 1..Len(MonthNames) |-> ReStr(MonthNames[i])]),
               RePlus(ReSpace), ReRep(ReDigit, 1, 2), ReOpt(ReLit(",")),
               RePlus(ReSpace), ReRep(ReDigit, 4, 4), ReWordB>>),
       \* \b\d{1,2}/\d{1,2}/\d{4}\b
       ReCat(<<ReWordB, ReRep(ReDigit, 1, 2), ReLit("/"), ReRep(ReDigit, 1, 2),
               ReLit("/"), ReRep(ReDigit, 4, 4), ReWordB>>),
       \* \b\d{4}-\d{2}-\d{2}\b
       ReCat(<<ReWordB, ReRep(ReDigit, 4, 4), ReLit("-"), ReRep(ReDigit, 2, 2),
               ReLit("-"), ReRep(ReDigit, 2, 2), ReWordB>>) >>

\* compiled with re.IGNORECASE
CASE_NUMBER_PATTERNS ==
    << \* (?:Case|Docket|Civil|Criminal)\s+(?:No\.|Number|#)\s*[:\s]*([A-Z0-9-:]+)
       ReCat(<<ReAlt(<<ReStr(<<"C", "a", "s", "e">>), ReStr(<<"D", "o", "c", "k", "e", "t">>), ReStr(<<"C", "i", "v", "i", "l">>), ReStr(<<"C", "r", "i", "m", "i", "n", "a", "l">>)>>),
               RePlus(ReSpace),
               ReAlt(<<ReStr(<<"N", "o", ".">>), ReStr(<<"N", "u", "m", "b", "e", "r">>), ReLit("#")>>),
               ReStar(ReSpace), ReStar(ReSet({":"} \cup SpaceChars)),
               ReGroup(1, RePlus(ReSet(UpperChars \cup DigitChars \cup {"-", ":"})))>>),
       \* \b\d{1,2}:\d{2}-(?:cv|cr)-\d{5}\b
       ReCat(<<ReWordB, ReRep(ReDigit, 1, 2), ReLit(":"), ReRep(ReDigit, 2, 2),
               ReLit("-"), ReAlt(<<ReStr(<<"c", "v">>), ReStr(<<"c", "r">>)>>),
               ReLit("-"), ReRep(ReDigit, 5, 5), ReWordB>> ) >>

\* the number of groups of each case-number pattern (findall returns group 1
\* of a pattern with one group and the whole match of a pattern with none)
CASE_NUMBER_GROUPS == <<1, 0>>

\* [A-Z][a-z]+(?:\s+[A-Z][a-z]+)*
CapitalizedWords ==
    ReCat(<<ReSet(UpperChars), RePlus(ReSet(LowerChars)),
            ReStar(ReCat(<<RePlus(ReSpace), ReSet(UpperChars),
                           RePlus(ReSet(LowerChars))>>))>>)

\* ([A-Z][a-z]+(?:\s+[A-Z][a-z]+)*)\s+v\.\s+([A-Z][a-z]+(?:\s+[A-Z][a-z]+)*)
vs_pattern ==
    ReCat(<<ReGroup(1, CapitalizedWords), RePlus(ReSpace), ReLit("v"), ReLit("."),
            RePlus(ReSpace), ReGroup(2, CapitalizedWords)>>)

\* re.split(r'\n\s*\n', text) splits at this pattern
ParagraphBreak == ReCat(<<ReLit("\n"), ReStar(ReSpace), ReLit("\n")>>)

----------------------------------------------------------------------------
(* LegalTextParser *)

DocumentSectionThroughNewline(section_number, title, content, level, start_position, end_position) ==
    [section_number |-> section_number, title |-> title, content |-> content,
     level |-> level, start_position |-> start_position,
     end_position |-> end_position + 1]

DocumentSection(section_number, title, content, level, start_position, end_position) ==
    [section_number |-> section_number, title |-> title, content |-> content,
     level |-> level, start_position |-> start_position,
     end_position |-> end_position]

LegalCitation(citation_text, citation_type, position) ==
    [text |-> citation_text, citation_type |-> citation_type, position |-> position]

ParsedDocumentStrippingText(raw_text, sections, citations, metadata, paragraphs) ==
    [raw_text |-> Strip(raw_text), sections |-> sections, citations |-> citations,
     metadata |-> metadata, paragraphs |-> paragraphs]

ParsedDocument(raw_text, sections, citations, metadata, paragraphs) ==
    [raw_text |-> raw_text, sections |-> sections, citations |-> citations,
     metadata |-> metadata, paragraphs |-> paragraphs]

_is_section_header(line) ==
    \E k \in 1..Len(SECTION_PATTERNS) : ReMatch(SECTION_PATTERNS[k], line, FALSE).found

_estimate_section_level_letters_fourth(line, section_num) ==
    LET whole(class) == ReMatch(ReCat(<<ReBegin, class, ReEnd>>), section_num, FALSE).found
    IN  IF section_num # None /\ whole(RePlus(ReSet(RomanChars))) THEN 1
        ELSE IF section_num # None /\ whole(RePlus(ReDigit))
             THEN (IF Len(section_num) = 1 THEN 2 ELSE 3)
        ELSE IF section_num # None /\ whole(ReSet(UpperChars)) THEN 4
        ELSE IF IsUpper(line) THEN 1
        ELSE 2

_estimate_section_level(line, section_num) ==
    LET whole(class) == ReMatch(ReCat(<<ReBegin, class, ReEnd>>), section_num, FALSE).found
    IN  IF section_num # None /\ whole(RePlus(ReSet(RomanChars))) THEN 1
        ELSE IF section_num # None /\ whole(RePlus(ReDigit))
             THEN (IF Len(section_num) = 1 THEN 2 ELSE 3)
        ELSE IF section_num # None /\ whole(ReSet(UpperChars)) THEN 3
        ELSE IF IsUpper(line) THEN 1
        ELSE 2

RECURSIVE ContentLinesThroughHeaders(_, _, _)
ContentLinesThroughHeaders(lines, j, last) ==
    IF j > last THEN <<>>
    ELSE <<lines[j]>> \o ContentLinesThroughHeaders(lines, j + 1, last)

\* the lines after a header that are its content: lines[j..last], up to the
\* next header
RECURSIVE ContentLines(_, _, _)
ContentLines(lines, j, last) ==
    IF j > last \/ _is_section_header(Strip(lines[j])) THEN <<>>
    ELSE <<lines[j]>> \o ContentLines(lines, j + 1, last)

SectionAtLastPattern(lines, i, current_position) ==
    LET line          == lines[i]
        line_stripped == Strip(line)
        hits == {k \in 1..Len(SECTION_PATTERNS) :
                    ReMatch(SECTION_PATTERNS[k], line_stripped, FALSE).found}
    IN  IF line_stripped = <<>> \/ hits = {} THEN <<>>
        ELSE LET k == CHOOSE h \in hits : \A g \in hits : h >= g
                 match == ReMatch(SECTION_PATTERNS[k], line_stripped, FALSE)
                 section_num == IF SECTION_GROUPS[k] >= 2
                                THEN GroupK(line_stripped, match, 1) ELSE None
                 title == IF SECTION_GROUPS[k] >= 2
                          THEN GroupK(line_stripped, match, 2) ELSE line_stripped
                 content_lines == ContentLines(lines, i + 1, Min(i + 19, Len(lines)))
             IN  << DocumentSection(
                        section_num, title, Join(content_lines, <<"\n">>),
                        _estimate_section_level(line_stripped, section_num),
                        current_position,
                        current_position
                          + Len(Join(<<line>> \o content_lines, <<"\n">>))) >>

\* the section that starts at line i (lines[i] is line i-1 of the code's
\* enumerate), or no section
SectionAt(lines, i, current_position) ==
    LET line          == lines[i]
        line_stripped == Strip(line)
        hits == {k \in 1..Len(SECTION_PATTERNS) :
                    ReMatch(SECTION_PATTERNS[k], line_stripped, FALSE).found}
    IN  IF line_stripped = <<>> \/ hits = {} THEN <<>>
        ELSE LET k == CHOOSE h \in hits : \A g \in hits : h <= g
                 match == ReMatch(SECTION_PATTERNS[k], line_stripped, FALSE)
                 section_num == IF SECTION_GROUPS[k] >= 2
                                THEN GroupK(line_stripped, match, 1) ELSE None
                 title == IF SECTION_GROUPS[k] >= 2
                          THEN GroupK(line_stripped, match, 2) ELSE line_stripped
                 content_lines == ContentLines(lines, i + 1, Min(i + 19, Len(lines)))
             IN  << DocumentSection(
                        section_num, title, Join(content_lines, <<"\n">>),
                        _estimate_section_level(line_stripped, section_num),
                        current_position,
                        current_position
                          + Len(Join(<<line>> \o content_lines, <<"\n">>))) >>

RECURSIVE SectionsFromSkippingBlank(_, _, _)
SectionsFromSkippingBlank(lines, i, current_position) ==
    IF i > Len(lines) THEN <<>>
    ELSE SectionAt(lines, i, current_position)
           \o SectionsFromSkippingBlank(
                 lines, i + 1,
                 IF Strip(lines[i]) = <<>> THEN current_position
                 ELSE current_position + Len(lines[i]) + 1)

RECURSIVE SectionsFrom(_, _, _)
SectionsFrom(lines, i, current_position) ==
    IF i > Len(lines) THEN <<>>
    ELSE SectionAt(lines, i, current_position)
           \o SectionsFrom(lines, i + 1, current_position + Len(lines[i]) + 1)

_extract_sections(t) == SectionsFrom(SplitOn(t, "\n"), 1, 0)

_extract_citations_last_pattern_first(t) ==
    Flatten([q \in 1..Len(CITATION_PATTERNS) |->
        LET p == Len(CITATION_PATTERNS) + 1 - q
            matches == ReFindIter(CITATION_PATTERNS[p].pattern, t, FALSE)
        IN  [i \in 1..Len(matches) |->
               LegalCitation(Group0(t, matches[i]), CITATION_PATTERNS[p].type,
                             matches[i].start - 1)]])

_extract_citations(t) ==
    Flatten([p \in 1..Len(CITATION_PATTERNS) |->
        LET matches == ReFindIter(CITATION_PATTERNS[p].pattern, t, FALSE)
        IN  [i \in 1..Len(matches) |->
               LegalCitation(Group0(t, matches[i]), CITATION_PATTERNS[p].type,
                             matches[i].start - 1)]])

\* re.split(pattern, t) for a pattern without groups
RECURSIVE SplitAt(_, _, _, _)
SplitAt(t, matches, i, from) ==
    IF i > Len(matches) THEN <<SubSeq(t, from, Len(t))>>
    ELSE <<SubSeq(t, from, matches[i].start - 1)>>
           \o SplitAt(t, matches, i + 1, matches[i].end)

ReSplit(node, t) == SplitAt(t, ReFindIter(node, t, FALSE), 1, 1)

KeepAllParagraphs(paragraphs) ==
    [i \in 1..Len(paragraphs) |-> Strip(paragraphs[i])]

RECURSIVE KeepParagraphsFrom20(_)
KeepParagraphsFrom20(paragraphs) ==
    IF paragraphs = <<>> THEN <<>>
    ELSE LET para == Strip(Head(paragraphs))
         IN  (IF para # <<>> /\ Len(para) >= 20 THEN <<para>> ELSE <<>>)
               \o KeepParagraphsFrom20(Tail(paragraphs))

RECURSIVE KeepParagraphs(_)
KeepParagraphs(paragraphs) ==
    IF paragraphs = <<>> THEN <<>>
    ELSE LET para == Strip(Head(paragraphs))
         IN  (IF para # <<>> /\ Len(para) > 20 THEN <<para>> ELSE <<>>)
               \o KeepParagraphs(Tail(paragraphs))

_extract_paragraphs(t) == KeepParagraphs(ReSplit(ParagraphBreak, t))

\* pattern.findall(t): the whole match, or group 1 of a pattern with one group
FindAll(node, groups, t, ignorecase) ==
    LET matches == ReFindIter(node, t, ignorecase)
    IN  {IF groups = 0 THEN Group0(t, matches[i]) ELSE GroupK(t, matches[i], 1) :
            i \in 1..Len(matches)}

\* set(dates), set(case_numbers), set(parties): the lists before list(set(...))
DateSet(t) ==
    UNION {FindAll(DATE_PATTERNS[p], 0, t, FALSE) : p \in 1..Len(DATE_PATTERNS)}

CaseNumberSet(t) ==
    UNION {FindAll(CASE_NUMBER_PATTERNS[p], CASE_NUMBER_GROUPS[p], t, TRUE) :
              p \in 1..Len(CASE_NUMBER_PATTERNS)}

PartySet(t) ==
    LET matches == ReFindIter(vs_pattern, t, FALSE)
    IN  UNION {{Strip(GroupK(t, matches[i], 1)), Strip(GroupK(t, matches[i], 2))} :
                  i \in 1..Len(matches)}

\* list(S) of a set S: its elements once each, in an order the code does not fix
ListsOf(S) ==
    {l \in [1..Cardinality(S) -> S] : \A i, j \in DOMAIN l : i # j => l[i] # l[j]}

_extract_dates(t) == ListsOf(DateSet(t))

_extract_case_numbers(t) == ListsOf(CaseNumberSet(t))

_extract_parties(t) == {SubSeq(l, 1, Min(10, Len(l))) : l \in ListsOf(PartySet(t))}

\* the dict that parse_document builds from the text
TextMetadata(t, dates, case_numbers, parties) ==
    [dates |-> dates, case_numbers |-> case_numbers, parties |-> parties,
     word_count |-> WordCount(t), character_count |-> Len(t)]

MergeMetadataParserWins(text_metadata, doc_metadata) ==
    IF doc_metadata.given /\ DOMAIN doc_metadata.dict # {}
    THEN DictUpdate(doc_metadata.dict, text_metadata)
    ELSE text_metadata

\* text_metadata.update(doc_metadata), under `if doc_metadata:`
MergeMetadata(text_metadata, doc_metadata) ==
    IF doc_metadata.given /\ DOMAIN doc_metadata.dict # {}
    THEN DictUpdate(text_metadata, doc_metadata.dict)
    ELSE text_metadata

\* the documents parse_document(t, doc_metadata) can return
ParseDocument(t, doc_metadata) ==
    LET sections   == _extract_sections(t)
        citations  == _extract_citations(t)
        paragraphs == _extract_paragraphs(t)
    IN  {ParsedDocument(t, sections, citations,
                        MergeMetadata(TextMetadata(t, dates, case_numbers, parties),
                                      doc_metadata),
                        paragraphs) :
            dates \in _extract_dates(t),
            case_numbers \in _extract_case_numbers(t),
            parties \in _extract_parties(t)}

----------------------------------------------------------------------------
(* list(set(...)) inside one worker process

   A set of str is iterated in the order of its hash table, which depends on
   the hashes of the strings; str hashes are salted with a seed the
   interpreter draws when the process starts.  Within a process the order of
   a given set built the same way is always the same; another process can
   iterate it in another order.  A seed below stands for the order it
   induces: the elements in text order, rotated and possibly reversed. *)

\* the matches of a pattern in text order, as re.finditer yields them
FindAllList(node, groups, t, ignorecase) ==
    LET matches == ReFindIter(node, t, ignorecase)
    IN  [i \in 1..Len(matches) |->
            IF groups = 0 THEN Group0(t, matches[i]) ELSE GroupK(t, matches[i], 1)]

\* the lists dates, case_numbers and parties before list(set(...))
DatesFound(t) ==
    Flatten([p \in 1..Len(DATE_PATTERNS) |-> FindAllList(DATE_PATTERNS[p], 0, t, FALSE)])

CaseNumbersFound(t) ==
    Flatten([p \in 1..Len(CASE_NUMBER_PATTERNS) |->
                FindAllList(CASE_NUMBER_PATTERNS[p], CASE_NUMBER_GROUPS[p], t, TRUE)])

PartiesFound(t) ==
    LET matches == ReFindIter(vs_pattern, t, FALSE)
    IN  Flatten([i \in 1..Len(matches) |->
                    <<Strip(GroupK(t, matches[i], 1)), Strip(GroupK(t, matches[i], 2))>>])

\* the elements of l once each, in the order of their first occurrence
RECURSIVE Distinct(_)
Distinct(l) ==
    IF l = <<>> THEN <<>>
    ELSE LET rest == Distinct(SubSeq(l, 1, Len(l) - 1))
             last == l[Len(l)]
         IN  IF \E i \in 1..Len(rest) : rest[i] = last THEN rest ELSE Append(rest, last)

HashSeeds == [shift : 0..MaxShift, reversed : BOOLEAN]

Rotate(l, k) ==
    IF Len(l) = 0 THEN <<>>
    ELSE [i \in 1..Len(l) |-> l[((i - 1 + k) % Len(l)) + 1]]

Reverse(l) == [i \in 1..Len(l) |-> l[Len(l) + 1 - i]]

\* list(set(l)) in a process whose hash seed is seed
ListOfSet(l, seed) ==
    LET once == Rotate(Distinct(l), seed.shift)
    IN  IF seed.reversed THEN Reverse(once) ELSE once

_extract_dates_seeded(t, seed) == ListOfSet(DatesFound(t), seed)

_extract_case_numbers_seeded(t, seed) == ListOfSet(CaseNumbersFound(t), seed)

_extract_parties_seeded_all(t, seed) == ListOfSet(PartiesFound(t), seed)

\* list(set(parties))[:10]
_extract_parties_seeded(t, seed) ==
    LET l == ListOfSet(PartiesFound(t), seed)
    IN  SubSeq(l, 1, Min(10, Len(l)))

\* the document parse_document(t, doc_metadata) returns in a process with that seed
ParseDocumentIn(t, doc_metadata, seed) ==
    ParsedDocument(t, _extract_sections(t), _extract_citations(t),
                   MergeMetadata(TextMetadata(t, _extract_dates_seeded(t, seed),
                                              _extract_case_numbers_seeded(t, seed),
                                              _extract_parties_seeded(t, seed)),
                                 doc_metadata),
                   _extract_paragraphs(t))

----------------------------------------------------------------------------
(* The arguments of parse_document *)

\* the pieces the texts are put together from, one or more lines each
TextPieces ==
    { <<>>,
      \* "AGREEMENT\n\nThis Agreement is entered into on January 1, 2024."
      <<"A", "G", "R", "E", "E", "M", "E", "N", "T", "\n", "\n", "T", "h",
      "i", "s", " ", "A", "g", "r", "e", "e", "m", "e", "n", "t", " ", "i",
      "s", " ", "e", "n", "t", "e", "r", "e", "d", " ", "i", "n", "t", "o",
      " ", "o", "n", " ", "J", "a", "n", "u", "a", "r", "y", " ", "1", ",",
      " ", "2", "0", "2", "4", ".">>,
      \* "1. Parties"
      <<"1", ".", " ", "P", "a", "r", "t", "i", "e", "s">>,
      \* "ARTICLE I: Terms"
      <<"A", "R", "T", "I", "C", "L", "E", " ", "I", ":", " ", "T", "e", "r",
      "m", "s">>,
      \* "See Smith v. Jones, 123 F.3d 456."
      <<"S", "e", "e", " ", "S", "m", "i", "t", "h", " ", "v", ".", " ", "J",
      "o", "n", "e", "s", ",", " ", "1", "2", "3", " ", "F", ".", "3", "d",
      " ", "4", "5", "6", ".">>,
      \* "28 U.S.C. § 1331; Case No. 1:23-cv-00123 (2024-12-31)"
      <<"2", "8", " ", "U", ".", "S", ".", "C", ".", " ", "§", " ", "1", "3",
      "3", "1", ";", " ", "C", "a", "s", "e", " ", "N", "o", ".", " ", "1",
      ":", "2", "3", "-", "c", "v", "-", "0", "0", "1", "2", "3", " ", "(",
      "2", "0", "2", "4", "-", "1", "2", "-", "3", "1", ")">>,
      \* "  indented \r"
      <<" ", " ", "i", "n", "d", "e", "n", "t", "e", "d", " ", "\r">>,
      \* " "
      <<" ">> }

\* the pieces of a text are joined by a newline
Texts == {Join(pieces, <<"\n">>) : pieces \in SeqsUpTo(TextPieces, MaxPieces)}

\* the texts parsed with a doc_metadata argument
TextsWithMetadata ==
    { <<>>,
      \* "Sample legal document text." (test_parse_with_metadata)
      <<"S", "a", "m", "p", "l", "e", " ", "l", "e", "g", "a", "l", " ", "d",
      "o", "c", "u", "m", "e", "n", "t", " ", "t", "e", "x", "t", ".">>,
      \* "  Smith v. Jones, January 1, 2024\n"
      <<" ", " ", "S", "m", "i", "t", "h", " ", "v", ".", " ", "J", "o", "n",
      "e", "s", ",", " ", "J", "a", "n", "u", "a", "r", "y", " ", "1", ",",
      " ", "2", "0", "2", "4", "\n">> }

\* the doc_metadata dicts; some of their keys are keys of the parser's own dict
MetadataDicts ==
    { EmptyDict,
      \* test_parse_with_metadata
      [pages |-> 10, author |-> <<"J", "o", "h", "n", " ", "D", "o", "e">>,
       title |-> <<"L", "e", "g", "a", "l", " ", "A", "g", "r", "e", "e", "m", "e", "n", "t">>],
      [word_count |-> 99],
      [dates |-> << <<"1", "9", "9", "9", "-", "0", "1", "-", "0", "1">> >>, pages |-> 1],
      [character_count |-> 0, parties |-> <<>>, case_numbers |-> << <<"X", "-", "1">> >>,
       extraction_method |-> "decode"] }

\* texts of section headers in each numbering style
HeaderTexts ==
    { \* "I. Terms\n1. Parties\n12. Misc\nA. Scope\nNOTICE"
      <<"I", ".", " ", "T", "e", "r", "m", "s", "\n", "1", ".", " ", "P",
      "a", "r", "t", "i", "e", "s", "\n", "1", "2", ".", " ", "M", "i", "s",
      "c", "\n", "A", ".", " ", "S", "c", "o", "p", "e", "\n", "N", "O", "T",
      "I", "C", "E">>,
      \* "X. Y"
      <<"X", ".", " ", "Y">>,
      \* "SECTION 2: Term"
      <<"S", "E", "C", "T", "I", "O", "N", " ", "2", ":", " ", "T", "e", "r",
      "m">>,
      \* "PART IV."
      <<"P", "A", "R", "T", " ", "I", "V", ".">> }

\* texts of blocks of 20 and of 21 characters, and of blocks of several lines
ParagraphTexts ==
    { \* "12345678901234567890\n\n123456789012345678901"
      <<"1", "2", "3", "4", "5", "6", "7", "8", "9", "0", "1", "2", "3", "4",
      "5", "6", "7", "8", "9", "0", "\n", "\n", "1", "2", "3", "4", "5", "6",
      "7", "8", "9", "0", "1", "2", "3", "4", "5", "6", "7", "8", "9", "0",
      "1">>,
      \* "  The first block of the text.  \n \t\n\nshort\n\r\nsecond line one\nsecond line two  \n"
      <<" ", " ", "T", "h", "e", " ", "f", "i", "r", "s", "t", " ", "b", "l",
      "o", "c", "k", " ", "o", "f", " ", "t", "h", "e", " ", "t", "e", "x",
      "t", ".", " ", " ", "\n", " ", "\t", "\n", "\n", "s", "h", "o", "r",
      "t", "\n", "\r", "\n", "s", "e", "c", "o", "n", "d", " ", "l", "i",
      "n", "e", " ", "o", "n", "e", "\n", "s", "e", "c", "o", "n", "d", " ",
      "l", "i", "n", "e", " ", "t", "w", "o", " ", " ", "\n">> }

\* texts of headers with and without numbering, of indented headers, of
\* blank lines, and of a header followed by more than 19 lines
SectionTexts ==
    {
      \* "ARTICLE I - DEFINITIONS\nThe  ...  A. Scope  \nSECTION 12: Term"
      <<"A", "R", "T", "I", "C", "L", "E", " ", "I", " ", "-", " ", "D", "E",
      "F", "I", "N", "I", "T", "I", "O", "N", "S", "\n", "T", "h", "e", " ",
      "t", "e", "r", "m", "s", ".", "\n", "\n", "1", ".", " ", "P", "a", "r",
      "t", "y", "\n", " ", " ", "A", ".", " ", "S", "c", "o", "p", "e", " ",
      " ", "\n", "S", "E", "C", "T", "I", "O", "N", " ", "1", "2", ":", " ",
      "T", "e", "r", "m">>,
      \* "I. X\nARTICLE I\nplain\nPART IV. Intro"
      <<"I", ".", " ", "X", "\n", "A", "R", "T", "I", "C", "L", "E", " ",
      "I", "\n", "p", "l", "a", "i", "n", "\n", "P", "A", "R", "T", " ", "I",
      "V", ".", " ", "I", "n", "t", "r", "o">>,
      \* "A. b\nx\nx\nx\nx\nx\nx\nx\nx\ ... nx\nx\nx\nx\nx\nx\nx\nx\nB. c"
      <<"A", ".", " ", "b", "\n", "x", "\n", "x", "\n", "x", "\n", "x", "\n",
      "x", "\n", "x", "\n", "x", "\n", "x", "\n", "x", "\n", "x", "\n", "x",
      "\n", "x", "\n", "x", "\n", "x", "\n", "x", "\n", "x", "\n", "x", "\n",
      "x", "\n", "x", "\n", "x", "\n", "x", "\n", "B", ".", " ", "c">>,
      \* "\n NOTICE\n\nbody\n"
      <<"\n", " ", "N", "O", "T", "I", "C", "E", "\n", "\n", "b", "o", "d",
      "y", "\n">> }

ParseArgs(t, doc_metadata) == [text |-> t, doc_metadata |-> doc_metadata]

ParseRequests ==
    {ParseArgs(t, NoMetadata) :
        t \in Texts \cup HeaderTexts \cup ParagraphTexts \cup SectionTexts}
      \cup {ParseArgs(t, Metadata(d)) : t \in TextsWithMetadata, d \in MetadataDicts}

----------------------------------------------------------------------------
(* parse_document as a state machine: one call, its arguments drawn from   *)
(* ParseRequests                                                           *)

\* a caller awaits parse_document(parse_text, parse_metadata)
parse_document ==
    /\ parse_phase = "pending"
    /\ parsed' \in ParseDocument(parse_text, parse_metadata)
    /\ parse_phase' = "returned"
    /\ UNCHANGED <<parse_text, parse_metadata>>
    /\ UNCHANGED <<extractor_vars, comparison_vars, worker_vars>>

InitParse ==
    /\ InitExtractor
    /\ phase = "idle"
    /\ req = NoRequest
    /\ parse_phase = "pending"
    /\ \E r \in ParseRequests : parse_text = r.text /\ parse_metadata = r.doc_metadata
    /\ parsed = None
    /\ ComparisonIdle
    /\ WorkerIdle

NextParse == parse_document

SpecParse == InitParse /\ [][NextParse]_vars

----------------------------------------------------------------------------
(* difflib.SequenceMatcher(None, a, b): the character alignment used by    *)
(* DocumentComparisonEngine.  Positions are the 0-based offsets of Python; *)
(* element k of a Python sequence s is s[k + 1] here.                      *)

Block(i, j, size) == [i |-> i, j |-> j, size |-> size]

\* autojunk: in a b of 200 or more elements, the elements that occur more
\* than 1 + len(b) / 100 times start no match
Popular(b) ==
    IF Len(b) >= 200
    THEN {c \in {b[k] : k \in 1..Len(b)} :
             Cardinality({k \in 1..Len(b) : b[k] = c}) > (Len(b) \div 100) + 1}
    ELSE {}

\* the blocks a[i:i+size] == b[j:j+size] within a[alo:ahi] and b[blo:bhi]
\* that hold no popular element
CommonBlocks(a, b, alo, ahi, blo, bhi) ==
    LET popular == Popular(b)
    IN  {blk \in {Block(i, j, size) : i \in alo..(ahi - 1), j \in blo..(bhi - 1),
                                      size \in 1..Min(ahi - alo, bhi - blo)} :
            /\ blk.i + blk.size <= ahi
            /\ blk.j + blk.size <= bhi
            /\ \A t \in 1..blk.size :
                  a[blk.i + t] = b[blk.j + t] /\ b[blk.j + t] \notin popular}

\* the block grown to the left, then to the right, over equal elements
RECURSIVE ExtendLeft(_, _, _, _, _)
ExtendLeft(a, b, alo, blo, blk) ==
    IF blk.i > alo /\ blk.j > blo /\ a[blk.i] = b[blk.j]
    THEN ExtendLeft(a, b, alo, blo, Block(blk.i - 1, blk.j - 1, blk.size + 1))
    ELSE blk

RECURSIVE ExtendRight(_, _, _, _, _)
ExtendRight(a, b, ahi, bhi, blk) ==
    IF /\ blk.i + blk.size < ahi
       /\ blk.j + blk.size < bhi
       /\ a[blk.i + blk.size + 1] = b[blk.j + blk.size + 1]
    THEN ExtendRight(a, b, ahi, bhi, Block(blk.i, blk.j, blk.size + 1))
    ELSE blk

\* the longest common block; of those the one earliest in a, then in b
find_longest_match(a, b, alo, ahi, blo, bhi) ==
    LET blocks == CommonBlocks(a, b, alo, ahi, blo, bhi)
        Better(x, y) ==
            \/ x.size > y.size
            \/ x.size = y.size /\ x.i < y.i
            \/ x.size = y.size /\ x.i = y.i /\ x.j <= y.j
        best == IF blocks = {} THEN Block(alo, blo, 0)
                ELSE CHOOSE x \in blocks : \A y \in blocks : Better(x, y)
    IN  ExtendRight(a, b, ahi, bhi, ExtendLeft(a, b, alo, blo, best))

\* the longest match, then the matches to its left and to its right
RECURSIVE MatchesWithin(_, _, _, _, _, _)
MatchesWithin(a, b, alo, ahi, blo, bhi) ==
    LET x == find_longest_match(a, b, alo, ahi, blo, bhi)
    IN  IF x.size = 0 THEN <<>>
        ELSE (IF alo < x.i /\ blo < x.j
              THEN MatchesWithin(a, b, alo, x.i, blo, x.j) ELSE <<>>)
             \o <<x>>
             \o (IF x.i + x.size < ahi /\ x.j + x.size < bhi
                 THEN MatchesWithin(a, b, x.i + x.size, ahi, x.j + x.size, bhi)
                 ELSE <<>>)

\* adjacent blocks are collapsed into one
RECURSIVE Collapse(_, _)
Collapse(blocks, cur) ==
    IF blocks = <<>> THEN (IF cur.size > 0 THEN <<cur>> ELSE <<>>)
    ELSE LET nxt == Head(blocks)
         IN  IF cur.i + cur.size = nxt.i /\ cur.j + cur.size = nxt.j
             THEN Collapse(Tail(blocks), Block(cur.i, cur.j, cur.size + nxt.size))
             ELSE (IF cur.size > 0 THEN <<cur>> ELSE <<>>)
                    \o Collapse(Tail(blocks), nxt)

\* the matching blocks in increasing order, closed by the empty block at
\* (len(a), len(b))
get_matching_blocks(a, b) ==
    Append(Collapse(MatchesWithin(a, b, 0, Len(a), 0, Len(b)), Block(0, 0, 0)),
           Block(Len(a), Len(b), 0))

Opcode(tag, i1, i2, j1, j2) == [tag |-> tag, i1 |-> i1, i2 |-> i2, j1 |-> j1, j2 |-> j2]

\* the opcodes that turn a into b: what lies between the position (i, j)
\* reached so far and the next matching block, then that block
RECURSIVE OpcodesFrom(_, _, _, _)
OpcodesFrom(blocks, k, i, j) ==
    IF k > Len(blocks) THEN <<>>
    ELSE LET blk == blocks[k]
             tag == IF i < blk.i /\ j < blk.j THEN "replace"
                    ELSE IF i < blk.i THEN "delete"
                    ELSE IF j < blk.j THEN "insert"
                    ELSE ""
         IN  (IF tag # "" THEN <<Opcode(tag, i, blk.i, j, blk.j)>> ELSE <<>>)
             \o (IF blk.size > 0
                 THEN <<Opcode("equal", blk.i, blk.i + blk.size,
                               blk.j, blk.j + blk.size)>>
                 ELSE <<>>)
             \o OpcodesFrom(blocks, k + 1, blk.i + blk.size, blk.j + blk.size)

get_opcodes(a, b) == OpcodesFrom(get_matching_blocks(a, b), 1, 0, 0)

RECURSIVE SumSizes(_)
SumSizes(blocks) ==
    IF blocks = <<>> THEN 0 ELSE Head(blocks).size + SumSizes(Tail(blocks))

\* a float that is the quotient num / den
Quotient(num, den) == [num |-> num, den |-> den]

ratio_empty_is_zero(a, b) ==
    LET matches == SumSizes(get_matching_blocks(a, b))
        length  == Len(a) + Len(b)
    IN  IF length # 0 THEN Quotient(2 * matches, length) ELSE Quotient(0, 1)

\* SequenceMatcher.ratio(): 2.0 * matches / length, and 1.0 for length 0
ratio(a, b) ==
    LET matches == SumSizes(get_matching_blocks(a, b))
        length  == Len(a) + Len(b)
    IN  IF length # 0 THEN Quotient(2 * matches, length) ELSE Quotient(1, 1)

----------------------------------------------------------------------------
(* DocumentComparisonEngine *)

DifferenceAtEndOfSpan(tag, original_text, modified_text, position) ==
    [type |-> tag, original_text |-> original_text,
     modified_text |-> modified_text, position |-> position + Len(original_text),
     severity |-> "material"]

Difference(tag, original_text, modified_text, position) ==
    [type |-> tag, original_text |-> original_text,
     modified_text |-> modified_text, position |-> position,
     severity |-> "material"]

SliceFromSecond(t, lo, hi) == SubSeq(t, lo + 2, hi)

\* text[lo:hi] of Python
Slice(t, lo, hi) == SubSeq(t, lo + 1, hi)

RECURSIVE DifferencesOfAllOpcodes(_, _, _)
DifferencesOfAllOpcodes(opcodes, text_a, text_b) ==
    IF opcodes = <<>> THEN <<>>
    ELSE LET op == Head(opcodes)
         IN  << Difference(op.tag, Slice(text_a, op.i1, op.i2),
                           Slice(text_b, op.j1, op.j2), op.i1) >>
             \o DifferencesOfAllOpcodes(Tail(opcodes), text_a, text_b)

RECURSIVE DifferencesOf(_, _, _)
DifferencesOf(opcodes, text_a, text_b) ==
    IF opcodes = <<>> THEN <<>>
    ELSE LET op == Head(opcodes)
         IN  (IF op.tag # "equal"
              THEN << Difference(
                        op.tag,
                        IF op.i1 < op.i2 THEN Slice(text_a, op.i1, op.i2) ELSE <<>>,
                        IF op.j1 < op.j2 THEN Slice(text_b, op.j1, op.j2) ELSE <<>>,
                        op.i1) >>
              ELSE <<>>)
             \o DifferencesOf(Tail(opcodes), text_a, text_b)

_identify_differences(text_a, text_b) ==
    DifferencesOf(get_opcodes(text_a, text_b), text_a, text_b)

_identify_similarities(text_a, text_b) ==
    << [section |-> "Boilerplate provisions", preservation_score |-> Quotient(95, 100)] >>

RECURSIVE _analyze_legal_implications(_)
_analyze_legal_implications(differences) ==
    IF differences = <<>> THEN <<>>
    ELSE (IF Head(differences).severity = "material"
          THEN << <<"Material change in ", Head(differences).type,
                    " may alter binding obligations">> >>
          ELSE <<>>)
         \o _analyze_legal_implications(Tail(differences))

_generate_redline(original, modified) ==
    "<div class='redline'>Redline HTML would be generated here</div>"

_generate_recommendation(differences, legal_implications) ==
    LET material_changes ==
            Cardinality({k \in 1..Len(differences) :
                            differences[k].severity = "material"})
    IN  IF material_changes > 0
        THEN <<"Review required: ", ToString(material_changes),
               " material changes identified. ",
               "Attorney review recommended for binding obligation modifications.">>
        ELSE <<"Non-material changes only. Routine review adequate.">>

_calculate_similarity_by_length(text_a, text_b) ==
    IF Len(text_a) + Len(text_b) # 0
    THEN Quotient(2 * Min(Len(text_a), Len(text_b)), Len(text_a) + Len(text_b))
    ELSE Quotient(1, 1)

_calculate_similarity(text_a, text_b) == ratio(text_a, text_b)

\* the dict compare_documents returns
CompareDocuments(doc_a_text, doc_b_text, doc_a_id, doc_b_id) ==
    LET differences == _identify_differences(doc_a_text, doc_b_text)
        similarities == _identify_similarities(doc_a_text, doc_b_text)
        legal_implications == _analyze_legal_implications(differences)
        redline == _generate_redline(doc_a_text, doc_b_text)
        recommendation == _generate_recommendation(differences, legal_implications)
    IN  [doc_a_id |-> doc_a_id,
         doc_b_id |-> doc_b_id,
         differences |-> differences,
         similarities |-> similarities,
         legal_implications |-> legal_implications,
         redline_html |-> redline,
         recommendation |-> recommendation,
         change_count |-> Len(differences),
         similarity_score |-> _calculate_similarity(doc_a_text, doc_b_text)]

----------------------------------------------------------------------------
(* compare_documents as a state machine: one call, its two texts drawn     *)
(* from DocTexts                                                           *)

DocAlphabet == {"a", "b"}

DocTexts == SeqsUpTo(DocAlphabet, MaxDocLen)

\* a caller awaits compare_documents(compare_a, compare_b)
compare_documents ==
    /\ compare_phase = "pending"
    /\ compared' = CompareDocuments(compare_a, compare_b, "doc_a", "doc_b")
    /\ compare_phase' = "returned"
    /\ UNCHANGED <<compare_a, compare_b>>
    /\ UNCHANGED <<extractor_vars, parser_vars, worker_vars>>

InitCompare ==
    /\ InitExtractor
    /\ phase = "idle"
    /\ req = NoRequest
    /\ ParserIdle
    /\ compare_phase = "pending"
    /\ compare_a \in DocTexts
    /\ compare_b \in DocTexts
    /\ compared = None
    /\ WorkerIdle

NextCompare == compare_documents

SpecCompare == InitCompare /\ [][NextCompare]_vars

----------------------------------------------------------------------------
(* Two invocations with the same inputs

   One of extract_text, parse_document and compare_documents is invoked
   twice with the same arguments.  Between the two invocations the worker
   process may be restarted (a deployment, a second worker): the module-level
   objects are constructed anew and the interpreter draws a new hash seed. *)

\* texts with more than 10 names, with two dates, with repeated names, with
\* two case numbers, and with none of these
RepeatTexts ==
    {
      \* "Aa v. Bb, Ca v. Db, Ea v. Fb, Ga v. Hb, Ia v. Jb, Ka v. Lb"
      <<"A", "a", " ", "v", ".", " ", "B", "b", ",", " ", "C", "a", " ", "v",
      ".", " ", "D", "b", ",", " ", "E", "a", " ", "v", ".", " ", "F", "b",
      ",", " ", "G", "a", " ", "v", ".", " ", "H", "b", ",", " ", "I", "a",
      " ", "v", ".", " ", "J", "b", ",", " ", "K", "a", " ", "v", ".", " ",
      "L", "b">>,
      \* "Filed January 1, 2024 (2024-12-31)"
      <<"F", "i", "l", "e", "d", " ", "J", "a", "n", "u", "a", "r", "y", " ",
      "1", ",", " ", "2", "0", "2", "4", " ", "(", "2", "0", "2", "4", "-",
      "1", "2", "-", "3", "1", ")">>,
      \* "Doe v. Roe; Roe v. Doe; Poe v. Doe"
      <<"D", "o", "e", " ", "v", ".", " ", "R", "o", "e", ";", " ", "R", "o",
      "e", " ", "v", ".", " ", "D", "o", "e", ";", " ", "P", "o", "e", " ",
      "v", ".", " ", "D", "o", "e">>,
      \* "Case No. 12-345, Docket # A-7"
      <<"C", "a", "s", "e", " ", "N", "o", ".", " ", "1", "2", "-", "3", "4",
      "5", ",", " ", "D", "o", "c", "k", "e", "t", " ", "#", " ", "A", "-",
      "7">>,
      \* "No dates here."
      <<"N", "o", " ", "d", "a", "t", "e", "s", " ", "h", "e", "r", "e", ".">> }

RepeatDocs == SeqsUpTo(DocAlphabet, MaxRepeatLen)

\* the first or the second await of extract_text(...) with the same request
extract_repeat ==
    /\ phase \in {"pending", "returned"}
    /\ runs < 2
    /\ Call(req)
    /\ earlier' = ret
    /\ runs' = runs + 1
    /\ UNCHANGED <<hash_seed, tasks>>

\* the first or the second await of parse_document(parse_text, parse_metadata)
parse_repeat ==
    /\ parse_phase \in {"pending", "returned"}
    /\ runs < 2
    /\ parsed' = ParseDocumentIn(parse_text, parse_metadata, hash_seed)
    /\ parse_phase' = "returned"
    /\ earlier' = parsed
    /\ runs' = runs + 1
    /\ UNCHANGED <<parse_text, parse_metadata, hash_seed, tasks>>
    /\ UNCHANGED <<extractor_vars, comparison_vars>>

\* the first or the second compare_documents(compare_a, compare_b)
compare_repeat ==
    /\ compare_phase \in {"pending", "returned"}
    /\ runs < 2
    /\ compared' = CompareDocuments(compare_a, compare_b, "doc_a", "doc_b")
    /\ compare_phase' = "returned"
    /\ earlier' = compared
    /\ runs' = runs + 1
    /\ UNCHANGED <<compare_a, compare_b, hash_seed, tasks>>
    /\ UNCHANGED <<extractor_vars, parser_vars>>

\* the process is started anew between the two invocations: a new hash seed,
\* and the module-level DocumentExtractor is constructed again
restart ==
    /\ runs = 1
    /\ hash_seed' \in HashSeeds \ {hash_seed}
    /\ extraction_stats' = NoStats
    /\ before' = NoStats
    /\ since' = NoCalls
    /\ calls' = 0
    /\ held' = NoHeld
    /\ UNCHANGED <<phase, req, ret, tried, snapshot>>
    /\ UNCHANGED <<parser_vars, comparison_vars, earlier, runs, tasks>>

InitTwice ==
    /\ InitExtractor
    /\ hash_seed \in HashSeeds
    /\ earlier = None
    /\ runs = 0
    /\ tasks = <<>>
    /\ \/ /\ phase = "pending"
          /\ req \in SeqRequests
          /\ ParserIdle
          /\ ComparisonIdle
       \/ /\ phase = "idle"
          /\ req = NoRequest
          /\ parse_phase = "pending"
          /\ parse_text \in RepeatTexts
          /\ parse_metadata = NoMetadata
          /\ parsed = None
          /\ ComparisonIdle
       \/ /\ phase = "idle"
          /\ req = NoRequest
          /\ ParserIdle
          /\ compare_phase = "pending"
          /\ compare_a \in RepeatDocs
          /\ compare_b \in RepeatDocs
          /\ compared = None

NextTwice == extract_repeat \/ parse_repeat \/ compare_repeat \/ restart

SpecTwice == InitTwice /\ [][NextTwice]_vars

----------------------------------------------------------------------------
(* Properties of DocumentExtractor *)

Returned1 == phase = "returned"

FileExt == Lower(PathSuffix(req.filename))

\* s occurs in t as a contiguous run of fragments
Contains(t, s) ==
    \E k \in 0..(Len(t) - Len(s)) : SubSeq(t, k + 1, k + Len(s)) = s

\* every text of the sequence is empty or whitespace only
AllBlank(texts) ==
    \A i \in 1..Len(texts) : \A j \in 1..Len(texts[i]) : texts[i][j] \in WhitespaceCp

LastThrew == tried # <<>> /\ tried[Len(tried)].threw

FailureCounted ==
    extraction_stats = [before EXCEPT !.failed = @ + 1, !.total_extracted = @ + 1]

SuccessCounted ==
    extraction_stats = [before EXCEPT !.successful = @ + 1, !.total_extracted = @ + 1]

\* C1: after any sequence of completed extract_text calls the counters are
\* the counters at the last get_stats (or at construction) plus the calls
\* returned since: total_extracted grew by the number of calls, successful
\* by the number that returned success == True, failed by the number that
\* returned success == False, and successful + failed == total_extracted.
C1_StatsCountReturnedCalls ==
    LET base == IF DOMAIN snapshot = {} THEN NoStats ELSE snapshot
    IN  /\ extraction_stats.total_extracted = base.total_extracted + since.calls
        /\ extraction_stats.successful = base.successful + since.ok
        /\ extraction_stats.failed = base.failed + since.bad
        /\ extraction_stats.successful + extraction_stats.failed
             = extraction_stats.total_extracted

C1_Witness ==
    /\ DOMAIN snapshot # {}
    /\ snapshot.total_extracted >= 1
    /\ since.ok >= 1
    /\ since.bad >= 1

\* C2: every dict returned by extract_text satisfies: success implies
\* error is None, and not success implies text == "".
C2_SuccessErrorTextShape ==
    Returned1 =>
        /\ ret.success => ret.error = None
        /\ ~ret.success => ret.text = <<>>

\* a DOCX document without any text: a success whose text is empty
C2_Witness ==
    /\ Returned1
    /\ ret.extraction_method = "python-docx"
    /\ ret.success
    /\ ret.text = <<>>

\* C3: a file name whose lower-cased suffix is not .pdf, .docx, .doc or
\* .txt is rejected at once: success False, text "", method 'none', an
\* 'Unsupported file type' error and no format-specific path attempted;
\* the match is case-insensitive, so 'A.TXT' is decoded as a .txt file.
C3_UnsupportedSuffixRejected ==
    Returned1 =>
        /\ (FileExt \notin { <<".","p","d","f">>, <<".","d","o","c","x">>,
                             <<".","d","o","c">>, <<".","t","x","t">> }
              => /\ ~ret.success
                 /\ ret.text = <<>>
                 /\ ret.extraction_method = "none"
                 /\ ret.error = <<"Unsupported file type: ">> \o FileExt
                 /\ tried = <<>>)
        /\ (req.filename \in OtherFilenames
              => ret.error # None /\ Head(ret.error) = "Unsupported file type: ")
        /\ (req.filename \in TxtFilenames \cup PdfFilenames \cup DocxFilenames
              => tried # <<>>
                 /\ (ret.error = None \/ Head(ret.error) # "Unsupported file type: "))
        /\ (req.filename = <<"A",".","T","X","T">>
              => ret.extraction_method = "decode" /\ tried[1].step = "utf-8")

C3_Witness ==
    /\ Returned1
    /\ req.filename = <<"a",".","x","y","z">>
    /\ req.file_content # <<>>
    /\ ret.error = <<"Unsupported file type: ", ".", "x", "y", "z">>

\* step i of the call threw inside the library or the decoder (and not by
\* the code's own raise on blank text)
LibraryThrew(i) ==
    /\ tried[i].threw
    /\ tried[i].step = "pdfplumber" => req.env.pdfplumber.raises
    /\ tried[i].step = "pypdf2" => req.env.pypdf2.raises

\* C4 as stated: whenever some format-specific step of the call threw, the
\* call returns success == False and increments exactly failed and
\* total_extracted.
C4_AnyThrowFails ==
    Returned1 =>
        ((\E i \in 1..Len(tried) : LibraryThrew(i))
            => ~ret.success /\ FailureCounted)

\* C4 amended: extract_text always returns a dict; when the last step it
\* attempted threw (no later step recovered the call) the dict has
\* success == False with the error message, and exactly failed and
\* total_extracted are incremented; when the last step did not throw the
\* call is a success and exactly successful and total_extracted are
\* incremented.
C4_UnrecoveredThrowFails ==
    Returned1 =>
        /\ ret.success \in BOOLEAN
        /\ LastThrew => ~ret.success /\ ret.error # None /\ FailureCounted
        /\ (tried # <<>> /\ ~LastThrew) => ret.success /\ SuccessCounted

C4_Witness ==
    /\ Returned1
    /\ tried = <<Attempt("python-docx", TRUE)>>
    /\ ~ret.success
    /\ ret.error = <<"File is not a zip file">>

PrimaryFails ==
    req.env.pdfplumber.raises \/ AllBlank(req.env.pdfplumber.pages)

FallbackFails ==
    req.env.pypdf2.raises \/ AllBlank(req.env.pypdf2.pages)

PrimaryMessage ==
    IF req.env.pdfplumber.raises THEN req.env.pdfplumber.msg
    ELSE <<"No text extracted from PDF">>

FallbackMessage ==
    IF req.env.pypdf2.raises THEN req.env.pypdf2.msg
    ELSE <<"No text extracted using PyPDF2">>

\* C5: for a .pdf input pdfplumber is attempted first and once; PyPDF2 is
\* attempted, once and after it, exactly when pdfplumber raised or gave
\* blank text and use_fallback is true.  Primary succeeds: success with
\* method pdfplumber, fallback not run.  Primary fails, fallback succeeds:
\* success with method pypdf2.  Both fail: failure whose error contains
\* both messages.  Primary fails, fallback disabled: failure with the
\* primary error alone.
C5_PdfFallbackOrder ==
    (Returned1 /\ FileExt = <<".","p","d","f">>) =>
        /\ Len(tried) \in {1, 2}
        /\ tried[1].step = "pdfplumber"
        /\ tried[1].threw = PrimaryFails
        /\ Len(tried) = 2 <=> (PrimaryFails /\ req.use_fallback)
        /\ Len(tried) = 2 => tried[2].step = "pypdf2" /\ tried[2].threw = FallbackFails
        /\ ~PrimaryFails
             => ret.success /\ ret.extraction_method = "pdfplumber"
        /\ (PrimaryFails /\ req.use_fallback /\ ~FallbackFails)
             => ret.success /\ ret.extraction_method = "pypdf2"
        /\ (PrimaryFails /\ req.use_fallback /\ FallbackFails)
             => /\ ~ret.success
                /\ Contains(ret.error, PrimaryMessage)
                /\ Contains(ret.error, FallbackMessage)
        /\ (PrimaryFails /\ ~req.use_fallback)
             => ~ret.success /\ ret.error = PrimaryMessage

\* pdfplumber opened the file but found only blank pages, PyPDF2 raised
C5_Witness ==
    /\ Returned1
    /\ FileExt = <<".","p","d","f">>
    /\ ~req.env.pdfplumber.raises
    /\ Len(req.env.pdfplumber.pages) = 2
    /\ req.env.pypdf2.raises
    /\ Len(tried) = 2
    /\ ~ret.success

\* C6: for a .txt input the candidates are tried in the order utf-8,
\* latin-1, cp1252, iso-8859-1; the first that decodes decides the result
\* (success, method 'decode', metadata with that encoding and the byte
\* length) and no later one is tried; only when all four fail is the
\* 'Unable to decode' failure with empty text returned.
C6_TxtFirstDecodingWins ==
    (Returned1 /\ FileExt = <<".","t","x","t">>) =>
        LET order == <<"utf-8", "latin-1", "cp1252", "iso-8859-1">>
            n     == Len(tried)
        IN  /\ n \in 1..4
            /\ \A i \in 1..n :
                  /\ tried[i].step = order[i]
                  /\ tried[i].threw = ~Decode(req.file_content, order[i]).ok
            /\ \A i \in 1..(n - 1) : tried[i].threw
            /\ ~tried[n].threw
                 => /\ ret.success
                    /\ ret.error = None
                    /\ ret.extraction_method = "decode"
                    /\ ret.metadata.encoding = order[n]
                    /\ ret.metadata.size_bytes = Len(req.file_content)
                    /\ ret.text = Decode(req.file_content, order[n]).text
            /\ tried[n].threw
                 => /\ n = 4
                    /\ ~ret.success
                    /\ ret.text = <<>>
                    /\ ret.error = <<"Unable to decode file with any known encoding">>

\* bytes that are not UTF-8: latin-1 is the second and last candidate tried
C6_Witness ==
    /\ Returned1
    /\ FileExt = <<".","t","x","t">>
    /\ Len(tried) = 2
    /\ tried[1].threw
    /\ ret.metadata.encoding = "latin-1"
    /\ Len(ret.text) = 3

EncodedStrings ==
    {<<Utf8Encode(s), s>> : s \in SeqsUpTo(CharAlphabet, MaxChars)}

\* C7: for every string S, the empty one included, extract_text of S
\* encoded as UTF-8 under a .txt name returns success True, text == S,
\* method 'decode', metadata.encoding 'utf-8' and error None.
C7_Utf8RoundTrip ==
    (Returned1 /\ req.filename \in TxtFilenames) =>
        \A es \in EncodedStrings :
            req.file_content = es[1]
                => /\ ret.success
                   /\ ret.text = es[2]
                   /\ ret.extraction_method = "decode"
                   /\ ret.metadata.encoding = "utf-8"
                   /\ ret.error = None

C7_Witness ==
    /\ Returned1
    /\ req.filename = <<"a",".","t","x","t">>
    /\ req.file_content = <<195, 169, 240, 159, 152, 128>>
    /\ ret.text = <<233, 128512>>

C7_WitnessEmpty ==
    /\ Returned1
    /\ req.filename = <<"a",".","t","x","t">>
    /\ req.file_content = <<>>
    /\ ret.success
    /\ ret.text = <<>>

----------------------------------------------------------------------------
(* Properties of LegalTextParser *)

Parsed1 == parse_phase = "returned"

\* the keys of the dict parse_document builds from the text
ParserKeys == {"dates", "case_numbers", "parties", "word_count", "character_count"}

\* the dict passed as doc_metadata; none passed counts as an empty one
ExtraDict == IF parse_metadata.given THEN parse_metadata.dict ELSE EmptyDict

\* the value parse_document computes from the text for a parser key is v
IsParserValue(k, v) ==
    CASE k = "dates"           -> v \in _extract_dates(parse_text)
      [] k = "case_numbers"    -> v \in _extract_case_numbers(parse_text)
      [] k = "parties"         -> v \in _extract_parties(parse_text)
      [] k = "word_count"      -> v = WordCount(parse_text)
      [] k = "character_count" -> v = Len(parse_text)

\* C8: for any text T and any (or no) extra metadata, the document that
\* parse_document returns has raw_text equal to T, character for character.
C8_RawTextIsInput ==
    Parsed1 => parsed.raw_text = parse_text

C8_Witness ==
    /\ Parsed1
    /\ parse_metadata.given
    /\ DOMAIN parse_metadata.dict # {}
    /\ Strip(parse_text) # parse_text
    /\ parsed.sections = <<>>
    /\ parsed.metadata.parties # <<>>
    /\ parsed.raw_text = parse_text

C8_WitnessNoMetadata ==
    /\ Parsed1
    /\ ~parse_metadata.given
    /\ Strip(parse_text) # parse_text
    /\ parsed.sections # <<>>
    /\ parsed.raw_text = parse_text

\* C9: parse_document of the empty text with no extra metadata returns a
\* ParsedDocument whose sections, citations and paragraphs are all empty
\* and whose metadata has word_count 0.
C9_EmptyTextParsesEmpty ==
    (Parsed1 /\ parse_text = <<>> /\ ~parse_metadata.given) =>
        /\ parsed.sections = <<>>
        /\ parsed.citations = <<>>
        /\ parsed.paragraphs = <<>>
        /\ parsed.metadata.word_count = 0

C9_Witness ==
    /\ Parsed1
    /\ parse_text = <<>>
    /\ ~parse_metadata.given
    /\ parsed.raw_text = <<>>
    /\ parsed.metadata.character_count = 0

\* C10: the result metadata is the parser-derived dict with extra merged
\* over it: every key of extra is in the metadata with extra's value, also
\* a key that is a parser-derived one; every parser-derived key that extra
\* lacks has the value computed from the text; with no extra or an empty
\* one the metadata has exactly the five parser-derived keys.
C10_ExtraMergedOverParserFields ==
    Parsed1 =>
        /\ DOMAIN parsed.metadata = ParserKeys \cup DOMAIN ExtraDict
        /\ \A k \in DOMAIN ExtraDict : parsed.metadata[k] = ExtraDict[k]
        /\ \A k \in ParserKeys \ DOMAIN ExtraDict :
               IsParserValue(k, parsed.metadata[k])
        /\ (DOMAIN ExtraDict = {}) => (DOMAIN parsed.metadata = ParserKeys)

C10_Witness ==
    /\ Parsed1
    /\ parse_metadata.given
    /\ "dates" \in DOMAIN ExtraDict
    /\ "pages" \in DOMAIN ExtraDict
    /\ DateSet(parse_text) # {}
    /\ parsed.metadata.dates = ExtraDict.dates
    /\ parsed.metadata.dates \notin _extract_dates(parse_text)
    /\ parsed.metadata.parties # <<>>
    /\ parsed.metadata.pages = 1

C10_WitnessEmptyExtra ==
    /\ Parsed1
    /\ parse_metadata.given
    /\ parse_metadata.dict = EmptyDict
    /\ parse_text # <<>>
    /\ DOMAIN parsed.metadata = ParserKeys

\* C15: every section of a parsed document has a level between 1 and 4,
\* and level 4 is never produced: the levels are 1, 2 and 3 only.
C15_SectionLevels ==
    Parsed1 =>
        \A k \in 1..Len(parsed.sections) :
            /\ parsed.sections[k].level \in 1..4
            /\ parsed.sections[k].level \in {1, 2, 3}

\* one document with a section of each level
C15_Witness ==
    /\ Parsed1
    /\ \A level \in {1, 2, 3} :
          \E k \in 1..Len(parsed.sections) : parsed.sections[k].level = level
    /\ \E k \in 1..Len(parsed.sections) :
          parsed.sections[k].section_number = <<"1", "2">> /\ parsed.sections[k].level = 3

\* the type tag of each citation pattern, in the order of the patterns
CitationTags == <<"case", "statute", "statute", "section">>

\* the records of the matches of citation pattern p in the text that was
\* parsed, a match after the end of the one before it
CitationsOfPattern(p) ==
    LET matches == ReFindIter(CITATION_PATTERNS[p].pattern, parse_text, FALSE)
    IN  [i \in 1..Len(matches) |->
           [text |-> Slice(parse_text, matches[i].start - 1, matches[i].end - 1),
            citation_type |-> CitationTags[p],
            position |-> matches[i].start - 1]]

\* C16: the citations are the matches of the case-reporter pattern, then
\* those of the state-code statute pattern, of the U.S. Code pattern and
\* of the section-symbol pattern, each pattern's matches by ascending
\* offset; a record has the matched text, the tag of its pattern and the
\* start offset of the match; nothing is removed or reordered across the
\* patterns.
C16_CitationsInPatternOrder ==
    Parsed1 =>
        /\ parsed.citations =
              CitationsOfPattern(1) \o CitationsOfPattern(2)
                \o CitationsOfPattern(3) \o CitationsOfPattern(4)
        /\ \A p \in 1..4 :
              \A i \in 1..Len(CitationsOfPattern(p)) :
                  /\ CitationsOfPattern(p)[i].text # <<>>
                  /\ i > 1 => CitationsOfPattern(p)[i - 1].position
                                + Len(CitationsOfPattern(p)[i - 1].text)
                                <= CitationsOfPattern(p)[i].position

\* a later record starts before an earlier one, and two records of
\* different patterns overlap
C16_Witness ==
    /\ Parsed1
    /\ \E k \in 1..(Len(parsed.citations) - 1) :
          parsed.citations[k].position > parsed.citations[k + 1].position
    /\ \E k, l \in 1..Len(parsed.citations) :
          /\ k < l
          /\ parsed.citations[k].citation_type = "statute"
          /\ parsed.citations[l].citation_type = "section"
          /\ parsed.citations[k].position < parsed.citations[l].position
          /\ parsed.citations[l].position
               < parsed.citations[k].position + Len(parsed.citations[k].text)

\* a line of whitespace only
IsBlankLine(line) == Strip(line) = <<>>

\* the runs of consecutive lines that are not blank, from line k on; cur
\* is the run that line k continues
RECURSIVE BlocksOfLines(_, _, _)
BlocksOfLines(lines, k, cur) ==
    LET done == IF cur = <<>> THEN <<>> ELSE <<cur>>
    IN  IF k > Len(lines) THEN done
        ELSE IF IsBlankLine(lines[k]) THEN done \o BlocksOfLines(lines, k + 1, <<>>)
        ELSE BlocksOfLines(lines, k + 1, Append(cur, lines[k]))

\* the blank-line-delimited blocks of the text that was parsed, trimmed
TrimmedBlocks ==
    LET blocks == BlocksOfLines(SplitOn(parse_text, "\n"), 1, <<>>)
    IN  [k \in 1..Len(blocks) |-> Strip(Join(blocks[k], <<"\n">>))]

\* C17: the paragraphs are the blank-line-delimited blocks of the text,
\* trimmed, that are longer than 20 characters, in the order of the text;
\* a block of 20 characters or fewer is dropped; no paragraph is empty.
C17_ParagraphsAreLongBlocks ==
    Parsed1 =>
        LET Long(block) == Len(block) > 20
        IN  /\ parsed.paragraphs = SelectSeq(TrimmedBlocks, Long)
            /\ \A k \in 1..Len(parsed.paragraphs) :
                  /\ parsed.paragraphs[k] # <<>>
                  /\ Len(parsed.paragraphs[k]) >= 21

\* a block of 20 characters is dropped and one of 21 is kept
C17_Witness ==
    /\ Parsed1
    /\ \E k \in 1..Len(TrimmedBlocks) : Len(TrimmedBlocks[k]) = 20
    /\ Len(parsed.paragraphs) = 1
    /\ Len(parsed.paragraphs[1]) = 21

\* a kept block of two lines, trimmed at both ends
C17_WitnessLines ==
    /\ Parsed1
    /\ Len(parsed.paragraphs) = 2
    /\ \E i \in 1..Len(parsed.paragraphs[2]) : parsed.paragraphs[2][i] = "\n"

----------------------------------------------------------------------------
(* Properties of DocumentComparisonEngine *)

Compared1 == compare_phase = "returned"

\* the float is 1.0, is 0.0
IsOne(q) == q.num = q.den
IsZero(q) == q.num = 0 /\ q.den # 0

\* the opcodes of the alignment of the two texts that are not equal opcodes
ChangeOpcodes ==
    LET Changes(op) == op.tag # "equal"
    IN  SelectSeq(get_opcodes(compare_a, compare_b), Changes)

\* the total length of the equal opcodes of the alignment
MatchedLength ==
    LET ops == get_opcodes(compare_a, compare_b)
        RECURSIVE Total(_)
        Total(k) == IF k > Len(ops) THEN 0
                    ELSE (IF ops[k].tag = "equal" THEN ops[k].i2 - ops[k].i1 ELSE 0)
                           + Total(k + 1)
    IN  Total(1)

\* C11: comparing a string, the empty one included, with itself gives the
\* similarity ratio 1.0 and no operations (change_count 0).
C11_SelfCompareIsIdentity ==
    (Compared1 /\ compare_a = compare_b) =>
        /\ IsOne(compared.similarity_score)
        /\ compared.differences = <<>>
        /\ compared.change_count = 0

C11_Witness ==
    /\ Compared1
    /\ compare_a = <<"a", "b", "a", "b">>
    /\ compare_b = compare_a
    /\ compared.similarity_score = Quotient(8, 8)
    /\ compared.differences = <<>>

C11_WitnessEmpty ==
    /\ Compared1
    /\ compare_a = <<>>
    /\ compare_b = <<>>
    /\ IsOne(compared.similarity_score)

\* C12: comparing the empty string with a non-empty string T gives exactly
\* one operation: an insert at position 0 whose original span is empty and
\* whose modified span is T; the similarity ratio is 0.0.
C12_InsertIntoEmpty ==
    (Compared1 /\ compare_a = <<>> /\ compare_b # <<>>) =>
        /\ Len(compared.differences) = 1
        /\ compared.differences[1].type = "insert"
        /\ compared.differences[1].original_text = <<>>
        /\ compared.differences[1].modified_text = compare_b
        /\ compared.differences[1].position = 0
        /\ IsZero(compared.similarity_score)

C12_Witness ==
    /\ Compared1
    /\ compare_a = <<>>
    /\ compare_b = <<"a", "b", "b">>
    /\ compared.change_count = 1
    /\ compared.differences[1].modified_text = <<"a", "b", "b">>

\* C13: the similarity ratio is 2*M / (len(a) + len(b)) with M the total
\* length of the equal blocks of the alignment, and 1.0 when both texts
\* are empty; it lies in [0, 1]; it is 1.0 exactly when the two texts are
\* the same string.
C13_RatioOfMatchedLength ==
    Compared1 =>
        LET score == compared.similarity_score
            length == Len(compare_a) + Len(compare_b)
        IN  /\ score.den > 0
            /\ length # 0 => score.num * length = 2 * MatchedLength * score.den
            /\ length = 0 => IsOne(score)
            /\ 0 <= score.num /\ score.num <= score.den
            /\ IsOne(score) <=> compare_a = compare_b

\* two texts of one length, half of it matched
C13_Witness ==
    /\ Compared1
    /\ Len(compare_a) = Len(compare_b)
    /\ compare_a # compare_b
    /\ MatchedLength = 2
    /\ compared.similarity_score = Quotient(4, 8)

\* C14: the operations are the non-equal opcodes of the alignment, one
\* each and in their order; the position of an operation is the start of
\* its opcode in the original text, its original span is a[i1:i2], its
\* modified span is b[j1:j2]; an insert has an empty original span, a
\* delete an empty modified span, a replace neither; change_count is the
\* number of operations.
C14_OperationsAreChangeOpcodes ==
    Compared1 =>
        LET ops == ChangeOpcodes
            differences == compared.differences
        IN  /\ Len(differences) = Len(ops)
            /\ compared.change_count = Len(differences)
            /\ \A k \in 1..Len(differences) :
                  LET d == differences[k]
                  IN  /\ d.type = ops[k].tag
                      /\ d.type \in {"insert", "delete", "replace"}
                      /\ d.position = ops[k].i1
                      /\ d.original_text = Slice(compare_a, ops[k].i1, ops[k].i2)
                      /\ d.modified_text = Slice(compare_b, ops[k].j1, ops[k].j2)
                      /\ d.type = "insert" => d.original_text = <<>> /\ d.modified_text # <<>>
                      /\ d.type = "delete" => d.modified_text = <<>> /\ d.original_text # <<>>
                      /\ d.type = "replace" => d.original_text # <<>> /\ d.modified_text # <<>>

\* an alignment with equal opcodes between a delete and an insert
C14_Witness ==
    /\ Compared1
    /\ compared.change_count >= 2
    /\ \E k \in 1..Len(compared.differences) :
          compared.differences[k].type = "delete" /\ compared.differences[k].position > 0
    /\ \E k \in 1..Len(compared.differences) : compared.differences[k].type = "insert"
    /\ MatchedLength > 0

C14_WitnessReplace ==
    /\ Compared1
    /\ \E k \in 1..Len(compared.differences) :
          /\ compared.differences[k].type = "replace"
          /\ compared.differences[k].position > 0


----------------------------------------------------------------------------
(* Properties of the party list and of repeated invocations *)

\* the text has been parsed in the worker process at least once
ParsedIn1 == parse_phase = "returned" /\ runs >= 1

\* the entries of a list
Entries(l) == {l[i] : i \in 1..Len(l)}

\* C18: for any text, metadata.parties has at most 10 entries and no
\* duplicates; every entry is the left or the right side of some
\* "<CapitalizedWords> v. <CapitalizedWords>" match, and when the matches
\* contribute 10 or fewer distinct names, both sides of every match are
\* present.  (The parties computed from the text: no doc_metadata overrides
\* the key.)
C18_PartiesCappedDistinctSides ==
    (ParsedIn1 /\ "parties" \notin DOMAIN ExtraDict) =>
        LET parties == parsed.metadata.parties
            names   == PartySet(parse_text)
        IN  /\ Len(parties) <= 10
            /\ \A i, j \in 1..Len(parties) : i # j => parties[i] # parties[j]
            /\ Entries(parties) \subseteq names
            /\ Cardinality(names) <= 10 => Entries(parties) = names

\* twelve names in the text, ten of them kept
C18_Witness ==
    /\ ParsedIn1
    /\ Cardinality(PartySet(parse_text)) = 12
    /\ Len(parsed.metadata.parties) = 10

\* three names found six times, each kept once
C18_WitnessRepeated ==
    /\ ParsedIn1
    /\ Len(PartiesFound(parse_text)) = 6
    /\ Entries(parsed.metadata.parties) = {<<"D", "o", "e">>, <<"R", "o", "e">>, <<"P", "o", "e">>}
    /\ Len(parsed.metadata.parties) = 3

\* C19: extract (apart from its counters), parse and compare are
\* deterministic: two invocations with the same inputs return equal outputs
\* in every field, including the content and order of metadata.parties,
\* metadata.dates and metadata.case_numbers of the ParsedDocument.
C19_SameInputsSameOutputs ==
    runs = 2 =>
        /\ phase = "returned" => ret = earlier
        /\ parse_phase = "returned" => parsed = earlier
        /\ compare_phase = "returned" => compared = earlier


----------------------------------------------------------------------------
(* Properties of get_stats *)

\* C20: get_stats is a read-only snapshot: calling it changes none of the
\* three counters, the mapping it returns is a copy so mutating it does not
\* alter the extractor's counters, and a snapshot taken earlier is not
\* changed by later extract calls.  A step that is not an extract call
\* (get_stats, a write to the held mapping) leaves extraction_stats as it
\* is, a step that is an extract call leaves the held mapping as it is, and
\* get_stats hands out the items of extraction_stats.
C20_GetStatsIsReadOnlyCopy ==
    [][ /\ calls' = calls => extraction_stats' = extraction_stats
        /\ calls' # calls => held' = held
        /\ (calls' = calls /\ ~held'.mutated) => held'.dict = extraction_stats ]_vars

\* a snapshot was taken and written to, and an extract call was made
\* afterwards: the held mapping, the counters and the snapshot as it was
\* returned all differ
C20_Witness ==
    /\ held.mutated
    /\ since.calls >= 1
    /\ held.dict # snapshot
    /\ held.dict # extraction_stats
    /\ extraction_stats # snapshot

\* a snapshot taken after one call is still what it was after two more
C20_WitnessKept ==
    /\ DOMAIN held.dict # {}
    /\ ~held.mutated
    /\ since.calls = 2
    /\ held.dict = snapshot
    /\ held.dict.total_extracted = 1
    /\ extraction_stats.total_extracted = 3


----------------------------------------------------------------------------
(* Properties of the sections *)

\* the lines of the text that was parsed
ParsedLines == SplitOn(parse_text, "\n")

\* header pattern k (in the fixed order: Roman-numeral-dot, digit-dot,
\* letter-dot, ARTICLE/SECTION/PART-prefixed, all-caps) matches the line
PatternMatches(k, line) == ReMatch(SECTION_PATTERNS[k], line, FALSE).found

\* a header line: not blank and, stripped, matched by some header pattern
IsHeaderLine(line) ==
    /\ Strip(line) # <<>>
    /\ \E k \in 1..Len(SECTION_PATTERNS) : PatternMatches(k, Strip(line))

\* the numbers, from 1, of the header lines, ascending
RECURSIVE HeaderLinesFrom(_, _)
HeaderLinesFrom(lines, i) ==
    IF i > Len(lines) THEN <<>>
    ELSE (IF IsHeaderLine(lines[i]) THEN <<i>> ELSE <<>>) \o HeaderLinesFrom(lines, i + 1)

HeaderLines == HeaderLinesFrom(ParsedLines, 1)

\* the stripped header line of the k-th header
HeaderLine(k) == Strip(ParsedLines[HeaderLines[k]])

\* the patterns that match a line, and the first of them in the fixed order
PatternsOf(line) == {k \in 1..Len(SECTION_PATTERNS) : PatternMatches(k, line)}
FirstPattern(line) == CHOOSE k \in PatternsOf(line) : \A g \in PatternsOf(line) : k <= g
LastPattern(line) == CHOOSE k \in PatternsOf(line) : \A g \in PatternsOf(line) : k >= g

\* what pattern k captures from a line it matches: the first group as the
\* number and the second as the title; the all-caps pattern has one group,
\* and gives no number and the line as the title
CapturedBy(k, line) ==
    LET match == ReMatch(SECTION_PATTERNS[k], line, FALSE)
    IN  IF k = 5 THEN [number |-> None, title |-> line]
        ELSE [number |-> GroupK(line, match, 1), title |-> GroupK(line, match, 2)]

\* C21: section detection produces exactly one section for every non-blank
\* line that matches at least one header pattern and none for any other
\* line, in document order; for a line matching several patterns only the
\* first in the fixed order determines the captured number and title.
C21_OneSectionPerHeaderLine ==
    Parsed1 =>
        /\ Len(parsed.sections) = Len(HeaderLines)
        /\ \A k \in 1..Len(HeaderLines) :
              LET captured == CapturedBy(FirstPattern(HeaderLine(k)), HeaderLine(k))
              IN  /\ parsed.sections[k].section_number = captured.number
                  /\ parsed.sections[k].title = captured.title

\* a text with a line that is no header and a header that two patterns
\* match, the later of which would have captured something else
C21_Witness ==
    /\ Parsed1
    /\ Len(HeaderLines) >= 2
    /\ Len(HeaderLines) < Len(ParsedLines)
    /\ \E k \in 1..Len(HeaderLines) :
          /\ Cardinality(PatternsOf(HeaderLine(k))) >= 2
          /\ CapturedBy(LastPattern(HeaderLine(k)), HeaderLine(k)).title
               # parsed.sections[k].title


\* the number of the last content line of the header at line h: the line
\* before the next header, the 19th line after h, or the last line of the text
LastContentLine(h) ==
    LET stops == {j \in (h + 1)..Len(ParsedLines) : IsHeaderLine(ParsedLines[j])}
        window == Min(h + 19, Len(ParsedLines))
    IN  IF stops = {} THEN window
        ELSE Min(window, (CHOOSE j \in stops : \A g \in stops : j <= g) - 1)

\* C22: each section's content consists of the consecutive lines
\* immediately following its header line, ending just before the first
\* following line that matches any header pattern, or after 19 lines, or at
\* the end of the text, whichever comes first; hence the content never has
\* more than 19 lines and never contains a line that is itself a header.
C22_ContentUpToNextHeaderOr19 ==
    Parsed1 =>
        \A k \in 1..Min(Len(parsed.sections), Len(HeaderLines)) :
            LET h    == HeaderLines[k]
                last == LastContentLine(h)
            IN  /\ parsed.sections[k].content
                     = Join(SubSeq(ParsedLines, h + 1, last), <<"\n">>)
                /\ last - h <= 19
                /\ \A j \in (h + 1)..last : ~IsHeaderLine(ParsedLines[j])

\* a header followed by more than 19 lines that are no headers: 19 are kept
C22_Witness ==
    /\ Parsed1
    /\ \E k \in 1..Len(HeaderLines) :
          LET h == HeaderLines[k]
          IN  /\ LastContentLine(h) = h + 19
              /\ h + 20 <= Len(ParsedLines)
              /\ ~IsHeaderLine(ParsedLines[h + 20])
              /\ Len(SplitOn(parsed.sections[k].content, "\n")) = 19

\* a header whose content ends at the next header, two lines further
C22_WitnessNextHeader ==
    /\ Parsed1
    /\ \E k \in 1..Len(HeaderLines) :
          LET h == HeaderLines[k]
          IN  /\ h + 3 <= Len(ParsedLines)
              /\ IsHeaderLine(ParsedLines[h + 3])
              /\ LastContentLine(h) = h + 2
              /\ parsed.sections[k].content # <<>>


\* the numbering token of a header line as the specification describes it:
\* the Roman numerals, digits or letter before the dot of a dotted header,
\* the numerals or digits after the keyword of an ARTICLE/SECTION/PART
\* header, and none for an all-caps header
NumberingToken(line) ==
    LET k     == FirstPattern(line)
        match == ReMatch(SECTION_PATTERNS[k], line, FALSE)
    IN  IF k = 5 THEN None
        ELSE IF k = 4 THEN GroupK(line, match, 2)
        ELSE GroupK(line, match, 1)

\* the title text of a header line: what follows the numbering token and
\* its punctuation, or the whole line of an all-caps header
TitleText(line) ==
    LET k     == FirstPattern(line)
        match == ReMatch(SECTION_PATTERNS[k], line, FALSE)
    IN  IF k = 5 THEN line
        ELSE IF k = 4 THEN GroupK(line, match, 3)
        ELSE GroupK(line, match, 2)

IsRomanToken(token) == token # <<>> /\ \A i \in 1..Len(token) : token[i] \in RomanChars
IsDigitToken(token) == token # <<>> /\ \A i \in 1..Len(token) : token[i] \in DigitChars
IsLetterToken(token) == Len(token) = 1 /\ token[1] \in UpperChars

\* the level the rules give a header line, the first applicable rule deciding
LevelByRules(line) ==
    LET token == NumberingToken(line)
    IN  IF IsRomanToken(token) THEN 1
        ELSE IF IsDigitToken(token) THEN (IF Len(token) = 1 THEN 2 ELSE 3)
        ELSE IF IsLetterToken(token) THEN 3
        ELSE IF token = None /\ IsUpper(line) THEN 1
        ELSE 2

\* C23: a section's level is decided by the first applicable rule:
\* numbering token pure Roman numerals -> 1; all digits -> 2 if a single
\* digit, 3 if several; a single letter -> 3; no numbering token but the
\* header line fully uppercase -> 1; otherwise -> 2.  Consequently a text
\* whose first header is 'ARTICLE I - DEFINITIONS' and whose next header is
\* '1. Party' yields at least two sections, the first of level 1 and the
\* second of level 2.
C23_LevelByNumberingToken ==
    Parsed1 =>
        /\ \A k \in 1..Min(Len(parsed.sections), Len(HeaderLines)) :
              parsed.sections[k].level = LevelByRules(HeaderLine(k))
        /\ (/\ Len(HeaderLines) >= 2
            /\ HeaderLine(1) = <<"A", "R", "T", "I", "C", "L", "E", " ", "I", " ", "-", " ",
                                 "D", "E", "F", "I", "N", "I", "T", "I", "O", "N", "S">>
            /\ HeaderLine(2) = <<"1", ".", " ", "P", "a", "r", "t", "y">>)
              => /\ Len(parsed.sections) >= 2
                 /\ parsed.sections[1].level = 1
                 /\ parsed.sections[2].level = 2

\* C24: for every section, number is either absent (all-caps header lines)
\* or the header's raw numbering token, i.e. a Roman-numeral string, a digit
\* string or a single uppercase letter, and title is the header's title
\* text; this holds for ARTICLE/SECTION/PART-prefixed headers as well as for
\* the dotted forms.
C24_NumberIsNumberingToken ==
    Parsed1 =>
        \A k \in 1..Min(Len(parsed.sections), Len(HeaderLines)) :
            LET number == parsed.sections[k].section_number
            IN  /\ number = NumberingToken(HeaderLine(k))
                /\ \/ number = None /\ FirstPattern(HeaderLine(k)) = 5
                   \/ IsRomanToken(number)
                   \/ IsDigitToken(number)
                   \/ IsLetterToken(number)
                /\ parsed.sections[k].title = TitleText(HeaderLine(k))


\* the offset at which line h starts in the text: the lengths of the lines
\* before it, blank ones included, and one newline for each
RECURSIVE LineOffset(_, _)
LineOffset(lines, h) ==
    IF h <= 1 THEN 0 ELSE LineOffset(lines, h - 1) + Len(lines[h - 1]) + 1

\* C25: for every section, start_position equals the sum over all lines
\* preceding its header line (blank lines included) of (line length + 1),
\* i.e. the offset at which the header line starts in the source text, and
\* raw_text[start_position:end_position] is exactly the header line followed
\* by the section's content lines joined by newlines.
C25_PositionsAreLineOffsets ==
    Parsed1 =>
        \A k \in 1..Min(Len(parsed.sections), Len(HeaderLines)) :
            LET h == HeaderLines[k]
                s == parsed.sections[k]
            IN  /\ s.start_position = LineOffset(ParsedLines, h)
                /\ Slice(parsed.raw_text, s.start_position, s.end_position)
                     = Join(<<ParsedLines[h]>>
                              \o SubSeq(ParsedLines, h + 1, LastContentLine(h)),
                            <<"\n">>)

\* an indented header after a blank line, with a blank line in its content
C25_Witness ==
    /\ Parsed1
    /\ \E k \in 1..Len(HeaderLines) :
          LET h == HeaderLines[k]
          IN  /\ h >= 2
              /\ \E j \in 1..(h - 1) : ParsedLines[j] = <<>>
              /\ Strip(ParsedLines[h]) # ParsedLines[h]
              /\ LastContentLine(h) >= h + 2
              /\ ParsedLines[h + 1] = <<>>
              /\ parsed.sections[k].start_position > 0
              /\ parsed.sections[k].end_position
                   > parsed.sections[k].start_position + Len(ParsedLines[h])


\* C27: the sections returned by parse are strictly ordered and disjoint in
\* the source: every section satisfies 0 <= start_position < end_position
\* <= len(text), and for consecutive sections s, t of the list
\* s.end_position < t.start_position, so no line of the text belongs to the
\* content of two sections and no header line lies inside another section's
\* span.
C27_SectionsOrderedDisjoint ==
    Parsed1 =>
        /\ \A k \in 1..Len(parsed.sections) :
              /\ 0 <= parsed.sections[k].start_position
              /\ parsed.sections[k].start_position < parsed.sections[k].end_position
              /\ parsed.sections[k].end_position <= Len(parse_text)
        /\ \A k \in 1..(Len(parsed.sections) - 1) :
              parsed.sections[k].end_position < parsed.sections[k + 1].start_position
        /\ \A k \in 1..(Min(Len(parsed.sections), Len(HeaderLines)) - 1) :
              LastContentLine(HeaderLines[k]) < HeaderLines[k + 1]

\* four sections, the second directly after the content of the first, the
\* last one ending at the end of the text
C27_Witness ==
    /\ Parsed1
    /\ Len(parsed.sections) = 4
    /\ parsed.sections[1].content # <<>>
    /\ parsed.sections[2].start_position = parsed.sections[1].end_position + 1
    /\ parsed.sections[4].end_position = Len(parse_text)

\* a section cut after 19 lines, and the next one some lines further
C27_WitnessGap ==
    /\ Parsed1
    /\ Len(parsed.sections) = 2
    /\ parsed.sections[2].start_position > parsed.sections[1].end_position + 1


----------------------------------------------------------------------------
(* Properties of the operations as an edit script *)

\* text a from offset pos on, each operation from the k-th on applied at its
\* position: the characters before it copied, its original span replaced
\* by its modified span
RECURSIVE Rebuild(_, _, _, _)
Rebuild(a, operations, k, pos) ==
    IF k > Len(operations) THEN Slice(a, pos, Len(a))
    ELSE LET op == operations[k]
         IN  Slice(a, pos, op.position) \o op.modified_text
               \o Rebuild(a, operations, k + 1, op.position + Len(op.original_text))

\* C26: for any texts a and b, the operations returned by compare(a, b)
\* have strictly increasing positions and non-overlapping original spans,
\* and they suffice to rebuild b from a: walking a from left to right and,
\* at each operation's position, replacing the operation's original span
\* (which equals a at that position) by its modified span while copying
\* every other character unchanged yields exactly b.
C26_OperationsRebuildB ==
    Compared1 =>
        LET ops == compared.differences
        IN  /\ \A k \in 1..(Len(ops) - 1) :
                  /\ ops[k].position < ops[k + 1].position
                  /\ ops[k].position + Len(ops[k].original_text) <= ops[k + 1].position
            /\ \A k \in 1..Len(ops) :
                  /\ ops[k].position + Len(ops[k].original_text) <= Len(compare_a)
                  /\ Slice(compare_a, ops[k].position,
                           ops[k].position + Len(ops[k].original_text))
                       = ops[k].original_text
            /\ Rebuild(compare_a, ops, 1, 0) = compare_b

\* two operations, an insert among them, and texts that differ
C26_Witness ==
    /\ Compared1
    /\ Len(compared.differences) >= 2
    /\ \E k \in 1..Len(compared.differences) :
          compared.differences[k].type = "insert" /\ compared.differences[k].position > 0
    /\ \E k \in 1..Len(compared.differences) :
          compared.differences[k].type \in {"replace", "delete"}
    /\ compare_a # compare_b


----------------------------------------------------------------------------
(* Properties of the TXT path for arbitrary bytes *)

\* C30: for every byte sequence the TXT path succeeds: because the second
\* candidate (latin-1) decodes any bytes, the recorded encoding is utf-8
\* when the bytes are valid UTF-8 and latin-1 otherwise, the candidates
\* cp1252 and iso-8859-1 are never selected, and the 'Unable to decode file
\* with any known encoding' failure is never returned for a bytes input.
C30_TxtAlwaysDecodes ==
    (Returned1 /\ FileExt = <<".","t","x","t">>) =>
        /\ ret.success
        /\ ret.error = None
        /\ ret.metadata.encoding
             = (IF Utf8Decode(req.file_content).ok THEN "utf-8" ELSE "latin-1")
        /\ ret.metadata.encoding \notin {"cp1252", "iso-8859-1"}
        /\ \A i \in 1..Len(tried) : tried[i].step \notin {"cp1252", "iso-8859-1"}
        /\ ~Utf8Decode(req.file_content).ok => ret.text = req.file_content

\* bytes that are neither UTF-8 nor cp1252 (0x81 has no cp1252 character)
C30_Witness ==
    /\ Returned1
    /\ FileExt = <<".","t","x","t">>
    /\ \E i \in 1..Len(req.file_content) : req.file_content[i] \in Cp1252Undefined
    /\ ~Utf8Decode(req.file_content).ok
    /\ ~Cp1252Decode(req.file_content).ok
    /\ ret.success
    /\ ret.metadata.encoding = "latin-1"

\* bytes that are UTF-8 with a character of several bytes
C30_WitnessUtf8 ==
    /\ Returned1
    /\ FileExt = <<".","t","x","t">>
    /\ Len(req.file_content) >= 2
    /\ Len(ret.text) < Len(req.file_content)
    /\ ret.metadata.encoding = "utf-8"

----------------------------------------------------------------------------
(* Properties of calls in flight on one event loop *)

\* C28: with the calls of a batch interleaved only at their await points, every
\* snapshot get_stats has returned, and the counters themselves, satisfy
\* successful + failed = total_extracted; each finished call has been counted
\* once, so that after all N calls total_extracted = N_before + N.
C28_NoUpdateLostOnEventLoop ==
    /\ extraction_stats.successful + extraction_stats.failed
           = extraction_stats.total_extracted
    /\ DOMAIN snapshot # {} =>
           snapshot.successful + snapshot.failed = snapshot.total_extracted
    /\ tasks # <<>> =>
           /\ extraction_stats.total_extracted
                  = before.total_extracted + Cardinality(Finished)
           /\ extraction_stats.successful
                  = before.successful
                    + Cardinality({t \in Finished : tasks[t].result.success})
           /\ extraction_stats.failed
                  = before.failed
                    + Cardinality({t \in Finished : ~tasks[t].result.success})

\* all calls of a batch launched after earlier calls have finished, two of
\* them having been suspended at their await together
C28_Witness ==
    /\ tasks # <<>>
    /\ Finished = DOMAIN tasks
    /\ before.total_extracted > 0
    /\ Cardinality({t \in DOMAIN tasks : ~Refused(tasks[t].request)
                        /\ tasks[t].seen = before}) >= 2
    /\ extraction_stats.total_extracted = before.total_extracted + MaxTasks

\* a snapshot taken while one call is suspended and another has finished
C28_WitnessSnapshot ==
    /\ tasks # <<>>
    /\ DOMAIN snapshot # {}
    /\ snapshot.total_extracted = before.total_extracted + 1
    /\ \E t \in DOMAIN tasks : tasks[t].pc = "awaiting"

----------------------------------------------------------------------------
(* Properties of calls on threads without a lock *)

\* the result of the call with request r made alone on a fresh extractor
ResultAlone(r) ==
    ExtractTextBody(NoStats, r.file_content, r.filename, r.use_fallback, r.env).result

\* C29: with the calls of a batch on threads and every += 1 a read followed by a
\* write, no counter is ever too high: total_extracted is at most its value
\* at the launch plus the calls started, successful at most its value plus the
\* started calls that succeed, failed at most its value plus the started calls
\* that fail; and each call's result is the one it gives when run alone.
C29_ThreadsNeverCountTooHigh ==
    tasks # <<>> =>
        /\ extraction_stats.total_extracted
               <= before.total_extracted + Cardinality(Started)
        /\ extraction_stats.successful
               <= before.successful
                  + Cardinality({t \in Started : tasks[t].result.success})
        /\ extraction_stats.failed
               <= before.failed
                  + Cardinality({t \in Started : ~tasks[t].result.success})
        /\ \A t \in Started : tasks[t].result = ResultAlone(tasks[t].request)

\* all calls have returned, launched after earlier calls, and an update of
\* total_extracted has been lost
C29_Witness ==
    /\ tasks # <<>>
    /\ Finished = DOMAIN tasks
    /\ before.total_extracted > 0
    /\ extraction_stats.total_extracted < before.total_extracted + MaxTasks

\* all calls have returned and every update has been kept
C29_WitnessExact ==
    /\ tasks # <<>>
    /\ Finished = DOMAIN tasks
    /\ \E t \in DOMAIN tasks : tasks[t].result.success
    /\ \E t \in DOMAIN tasks : ~tasks[t].result.success
    /\ extraction_stats.total_extracted = before.total_extracted + MaxTasks
    /\ extraction_stats.successful + extraction_stats.failed
           = extraction_stats.total_extracted

====
